---- MODULE Spec2Model ----
(***************************************************************************)
(* A state-machine model of the store-it application: the in-memory toast  *)
(* store (hooks/use-toast), the FileUploader drop handler, the user server *)
(* actions (lib/actions/user.actions.ts) and the file server actions       *)
(* (lib/actions/file.actions.ts) over an Appwrite-like backend (accounts,  *)
(* sessions, the users and files collections, the storage bucket).         *)
(*                                                                         *)
(* JavaScript strings that the code parses or compares (file names, search *)
(* text) are sequences of one-character strings.  Every backend call may   *)
(* fail; a handler is one action that follows the code path by path.       *)
(***************************************************************************)
EXTENDS Integers, Sequences, FiniteSets, TLC

VARIABLES
  \* hooks/use-toast module state
  memoryState,    \* { toasts: ToasterToast[] }
  toastTimeouts,  \* keys of the Map toastId -> timeout handle
  timers,         \* pending setTimeout callbacks: toastId -> how many
  count,          \* genId counter
  lastAction,     \* the action of the latest dispatch
  \* FileUploader component state
  files,          \* useState<File[]>: the pending ("Uploading") list
  inflight,       \* uploadFile promises not yet settled
  lastDrop,       \* acceptedFiles of the latest onDrop
  uploadCalls,    \* uploadFile calls issued by the latest onDrop
  dropToasts,     \* toast() calls issued by the latest onDrop
  \* the backend-as-a-service and the browsers
  backend,        \* accounts, tokens, sessions, collections, bucket
  cookie,         \* per browser: the 'appwrite-session' cookie
  last,           \* the latest server action or page render: its outcome
  \* client components
  dropdown,       \* ActionDropdown of one listed file: its props and state
  authForm,       \* AuthForm: its state
  search,         \* Search: its state, the URL's query, the requests in flight
  probe           \* the latest call of a utility function: arguments, result

toastVars == <<memoryState, toastTimeouts, timers, count, lastAction>>
uploaderVars == <<files, inflight, lastDrop, uploadCalls, dropToasts>>
serverVars == <<backend, cookie, last>>
componentVars == <<dropdown, authForm, search, probe>>
vars == <<memoryState, toastTimeouts, timers, count, lastAction,
          files, inflight, lastDrop, uploadCalls, dropToasts,
          backend, cookie, last, dropdown, authForm, search, probe>>

-----------------------------------------------------------------------------
\* Bounds of the model

\* how many toasts are ever created (caps the genId counter)
MaxToasts == 3
\* how many files one drop holds, and how many uploads are in flight
MaxDrop == 2
\* how many ids the backend hands out in the sign-in flows
MaxIds == 5
\* how many writes the backend takes in the file flows
MaxFileWrites == 3

-----------------------------------------------------------------------------
\* JavaScript values and helpers

Undefined == "<undefined>"
Null == "<null>"

Min(a, b) == IF a <= b THEN a ELSE b

\* Array.prototype.slice(from, to) on a sequence (0-based, to exclusive)
slice(s, from, to) ==
  IF Min(to, Len(s)) <= from THEN <<>> ELSE SubSeq(s, from + 1, Min(to, Len(s)))

\* Array.prototype.filter(keep) on a sequence is SelectSeq(s, keep)

\* Number.prototype.toString for the small counters of the model
toString(n) ==
  <<"0", "1", "2", "3", "4", "5", "6", "7", "8", "9", "10", "11", "12", "13",
    "14", "15", "16", "17", "18", "19", "20">>[n + 1]

\* { ...t, ...p }: object spread, the fields of p override those of t
spread(t, p) ==
  [f \in (DOMAIN t) \cup (DOMAIN p) |-> IF f \in DOMAIN p THEN p[f] ELSE t[f]]

\* file names of the model, as character sequences
NameA == <<"a", ".", "p", "n", "g">>
NameB == <<"b", ".", "P", "D", "F">>
FileNames == {NameA, NameB}

-----------------------------------------------------------------------------
\* hooks/use-toast

TOAST_LIMIT == 1

\* genId: count = (count + 1) % Number.MAX_SAFE_INTEGER; the modulus is out of
\* reach of the bounded counter
genId(c) == c + 1

\* ids that toast() has handed out so far
IssuedIds == {toString(i) : i \in 1..count}

\* reducer, case ADD_TOAST, keeping the oldest toasts instead of the newest
reducerAddKeepOld(state, action) ==
  [state EXCEPT !.toasts = slice(state.toasts \o <<action.toast>>, 0, TOAST_LIMIT)]

\* reducer, case ADD_TOAST
reducerAdd(state, action) ==
  [state EXCEPT !.toasts = slice(<<action.toast>> \o state.toasts, 0, TOAST_LIMIT)]

\* reducer, case UPDATE_TOAST
reducerUpdate(state, action) ==
  [state EXCEPT !.toasts =
     [i \in 1..Len(state.toasts) |->
        IF state.toasts[i].id = action.toast.id
        THEN spread(state.toasts[i], action.toast)
        ELSE state.toasts[i]]]

\* reducer, case DISMISS_TOAST: the new state
reducerDismiss(state, action) ==
  [state EXCEPT !.toasts =
     [i \in 1..Len(state.toasts) |->
        IF state.toasts[i].id = action.toastId \/ action.toastId = Undefined
        THEN [state.toasts[i] EXCEPT !.open = FALSE]
        ELSE state.toasts[i]]]

\* reducer, case REMOVE_TOAST
reducerRemove(state, action) ==
  IF action.toastId = Undefined
  THEN [state EXCEPT !.toasts = <<>>]
  ELSE [state EXCEPT !.toasts =
          LET keep(t) == t.id # action.toastId IN SelectSeq(state.toasts, keep)]

reducer(state, action) ==
  CASE action.type = "ADD_TOAST" -> reducerAdd(state, action)
    [] action.type = "UPDATE_TOAST" -> reducerUpdate(state, action)
    [] action.type = "DISMISS_TOAST" -> reducerDismiss(state, action)
    [] action.type = "REMOVE_TOAST" -> reducerRemove(state, action)

\* JavaScript truthiness of an optional string
truthy(s) == s # Undefined /\ s # Null /\ s # ""

\* addToRemoveQueue without the toastTimeouts.has(toastId) test
addToRemoveQueueAgain(q, toastId) ==
  [keys |-> q.keys \cup {toastId},
   pending |-> [q.pending EXCEPT ![toastId] = Min(@ + 1, 2)]]

\* addToRemoveQueue on the pair (Map keys, pending timers)
addToRemoveQueue(q, toastId) ==
  IF toastId \in q.keys THEN q
  ELSE [keys |-> q.keys \cup {toastId},
        pending |-> [q.pending EXCEPT ![toastId] = @ + 1]]

RECURSIVE addAllToRemoveQueue(_, _)
addAllToRemoveQueue(q, ts) ==
  IF ts = <<>> THEN q
  ELSE addAllToRemoveQueue(addToRemoveQueue(q, Head(ts).id), Tail(ts))

\* the side effect of the DISMISS_TOAST case
dismissQueue(state, action, q) ==
  IF truthy(action.toastId)
  THEN addToRemoveQueue(q, action.toastId)
  ELSE addAllToRemoveQueue(q, state.toasts)

\* every id a timer can be pending for
TimerIds == {toString(i) : i \in 1..(MaxToasts + 1)}

\* dispatch: memoryState = reducer(memoryState, action), with the reducer's
\* side effect on the removal queue
dispatch(action) ==
  /\ memoryState' = reducer(memoryState, action)
  /\ lastAction' = action
  /\ IF action.type = "DISMISS_TOAST"
     THEN LET q == dismissQueue(memoryState, action,
                                [keys |-> toastTimeouts, pending |-> timers])
          IN /\ toastTimeouts' = q.keys
             /\ timers' = q.pending
     ELSE UNCHANGED <<toastTimeouts, timers>>

ToastProps == [description : FileNames, className : {"error-toast"}]

\* toast(props): a fresh id, then ADD_TOAST of { ...props, id, open: true }
toast(props) ==
  /\ count < MaxToasts
  /\ count' = genId(count)
  /\ dispatch([type |-> "ADD_TOAST",
               toast |-> spread(props, [id |-> toString(genId(count)), open |-> TRUE])])

ToastCall ==
  \E props \in ToastProps :
    toast(props) /\ UNCHANGED uploaderVars /\ UNCHANGED serverVars /\ UNCHANGED componentVars

\* the partial toasts that update() of the toast with this id may send
UpdatePayloads(id) ==
  {[id |-> id]}
    \cup {[id |-> id, open |-> o] : o \in BOOLEAN}
    \cup {[id |-> id, description |-> d] : d \in FileNames}

\* toast().update
UpdateCall ==
  \E id \in IssuedIds : \E p \in UpdatePayloads(id) :
    /\ dispatch([type |-> "UPDATE_TOAST", toast |-> p])
    /\ UNCHANGED <<count>>
    /\ UNCHANGED uploaderVars
    /\ UNCHANGED serverVars /\ UNCHANGED componentVars

\* toast().dismiss, onOpenChange(false) and useToast().dismiss(toastId?)
DismissCall ==
  \E toastId \in IssuedIds \cup {Undefined, ""} :
    /\ dispatch([type |-> "DISMISS_TOAST", toastId |-> toastId])
    /\ UNCHANGED <<count>>
    /\ UNCHANGED uploaderVars
    /\ UNCHANGED serverVars /\ UNCHANGED componentVars

\* the setTimeout callback of addToRemoveQueue
TimerFire ==
  \E toastId \in TimerIds :
    /\ timers[toastId] > 0
    /\ memoryState' = reducer(memoryState, [type |-> "REMOVE_TOAST", toastId |-> toastId])
    /\ lastAction' = [type |-> "REMOVE_TOAST", toastId |-> toastId]
    /\ toastTimeouts' = toastTimeouts \ {toastId}
    /\ timers' = [timers EXCEPT ![toastId] = @ - 1]
    /\ UNCHANGED <<count>>
    /\ UNCHANGED uploaderVars
    /\ UNCHANGED serverVars /\ UNCHANGED componentVars

\* a REMOVE_TOAST action given to the reducer directly (with or without an id)
RemoveDispatch ==
  \E toastId \in IssuedIds \cup {Undefined} :
    /\ dispatch([type |-> "REMOVE_TOAST", toastId |-> toastId])
    /\ UNCHANGED <<count>>
    /\ UNCHANGED uploaderVars
    /\ UNCHANGED serverVars /\ UNCHANGED componentVars

InitToast ==
  /\ memoryState = [toasts |-> <<>>]
  /\ toastTimeouts = {}
  /\ timers = [i \in TimerIds |-> 0]
  /\ count = 0
  /\ lastAction = [type |-> "NONE"]

-----------------------------------------------------------------------------
\* components/FileUploader.tsx

MAX_FILE_SIZE == 52428800

FileSizes == {MAX_FILE_SIZE, MAX_FILE_SIZE + 1}
DroppedFiles == [name : FileNames, size : FileSizes]

RECURSIVE SeqsUpTo(_, _)
SeqsUpTo(S, n) ==
  IF n = 0 THEN {<<>>}
  ELSE SeqsUpTo(S, n - 1) \cup
       {Append(s, x) : s \in {t \in SeqsUpTo(S, n - 1) : Len(t) = n - 1}, x \in S}

\* onDrop's size test, with the limit itself rejected too
tooLargeInclusive(file) == file.size >= MAX_FILE_SIZE

\* onDrop's size test: file.size > MAX_FILE_SIZE
tooLarge(file) == file.size > MAX_FILE_SIZE

\* setFiles(prev => prev.filter(f => f.name !== name))
removeByName(prev, name) == LET keep(f) == f.name # name IN SelectSeq(prev, keep)

\* the synchronous part of acceptedFiles.map(async file => ...): file i of the
\* drop is handled after files 1..i-1.  d is the state threaded through:
\* the pending list, the toast store and the calls issued.
onDropFile(d, i, file) ==
  IF tooLarge(file)
  THEN LET id == toString(genId(d.count))
           t == [description |-> file.name, className |-> "error-toast",
                 id |-> id, open |-> TRUE]
           a == [type |-> "ADD_TOAST", toast |-> t]
       IN [d EXCEPT !.files = removeByName(d.files, file.name),
                    !.count = genId(d.count),
                    !.state = reducer(d.state, a),
                    !.last = a,
                    !.toasts = Append(d.toasts, [idx |-> i, toast |-> t])]
  ELSE [d EXCEPT !.calls = Append(d.calls, [idx |-> i, file |-> file])]

RECURSIVE onDropFrom(_, _, _)
onDropFrom(d, i, accepted) ==
  IF i > Len(accepted) THEN d
  ELSE onDropFrom(onDropFile(d, i, accepted[i]), i + 1, accepted)

NumTooLarge(accepted) == Cardinality({i \in 1..Len(accepted) : tooLarge(accepted[i])})

\* onDrop(acceptedFiles), up to its await Promise.all
onDrop(acceptedFiles) ==
  LET d0 == [files |-> acceptedFiles, count |-> count, state |-> memoryState,
             last |-> lastAction, toasts |-> <<>>, calls |-> <<>>]
      d == onDropFrom(d0, 1, acceptedFiles)
  IN /\ Len(inflight) + Len(acceptedFiles) <= MaxDrop
     /\ count + NumTooLarge(acceptedFiles) <= MaxToasts
     /\ files' = d.files
     /\ count' = d.count
     /\ memoryState' = d.state
     /\ lastAction' = d.last
     /\ dropToasts' = d.toasts
     /\ uploadCalls' = d.calls
     /\ lastDrop' = acceptedFiles
     /\ inflight' = inflight \o [i \in 1..Len(d.calls) |-> d.calls[i].file]
     /\ UNCHANGED <<toastTimeouts, timers>>
     /\ UNCHANGED serverVars /\ UNCHANGED componentVars

Drop == \E acceptedFiles \in SeqsUpTo(DroppedFiles, MaxDrop) : onDrop(acceptedFiles)

\* the .then callback of an uploadFile promise: uploadFile resolved with the
\* new file document
UploadResolved ==
  \E k \in 1..Len(inflight) :
    /\ files' = removeByName(files, inflight[k].name)
    /\ inflight' = SubSeq(inflight, 1, k - 1) \o SubSeq(inflight, k + 1, Len(inflight))
    /\ UNCHANGED <<lastDrop, uploadCalls, dropToasts>>
    /\ UNCHANGED toastVars
    /\ UNCHANGED serverVars /\ UNCHANGED componentVars

\* an uploadFile promise rejected: the .then callback does not run
UploadRejected ==
  \E k \in 1..Len(inflight) :
    /\ inflight' = SubSeq(inflight, 1, k - 1) \o SubSeq(inflight, k + 1, Len(inflight))
    /\ UNCHANGED <<files, lastDrop, uploadCalls, dropToasts>>
    /\ UNCHANGED toastVars
    /\ UNCHANGED serverVars /\ UNCHANGED componentVars

\* handleRemoveFile(e, fileName)
handleRemoveFile ==
  \E k \in 1..Len(files) :
    /\ files' = removeByName(files, files[k].name)
    /\ UNCHANGED <<inflight, lastDrop, uploadCalls, dropToasts>>
    /\ UNCHANGED toastVars
    /\ UNCHANGED serverVars /\ UNCHANGED componentVars

InitUploader ==
  /\ files = <<>>
  /\ inflight = <<>>
  /\ lastDrop = <<>>
  /\ uploadCalls = <<>>
  /\ dropToasts = <<>>

-----------------------------------------------------------------------------
\* Strings: lib/utils.ts getFileType and the string methods it uses

\* the characters of the model's strings, in code-point order
Chars ==
  <<".", "0", "1", "2", "3", "4", "5", "6", "7", "8", "9", "A", "B", "C",
    "D", "E", "F", "G", "H", "I", "J", "K", "L", "M", "N", "O", "P", "Q",
    "R", "S", "T", "U", "V", "W", "X", "Y", "Z", "a", "b", "c", "d", "e",
    "f", "g", "h", "i", "j", "k", "l", "m", "n", "o", "p", "q", "r", "s",
    "t", "u", "v", "w", "x", "y", "z">>

CharCode(c) == CHOOSE i \in 1..Len(Chars) : Chars[i] = c

\* String.prototype.toLowerCase: the 26 capitals, "A" at 12 and "a" at 38
toLowerChar(c) ==
  IF CharCode(c) >= CharCode("A") /\ CharCode(c) <= CharCode("Z")
  THEN Chars[CharCode(c) + (CharCode("a") - CharCode("A"))]
  ELSE c

toLowerCase(s) == [i \in 1..Len(s) |-> toLowerChar(s[i])]

\* String.prototype.split(sep): the pieces between the separators
RECURSIVE split(_, _)
split(s, sep) ==
  IF \A i \in 1..Len(s) : s[i] # sep THEN <<s>>
  ELSE LET k == CHOOSE i \in 1..Len(s) :
                  s[i] = sep /\ \A j \in 1..(i - 1) : s[j] # sep
       IN <<SubSeq(s, 1, k - 1)>> \o split(SubSeq(s, k + 1, Len(s)), sep)

\* Array.prototype.pop: the last element
pop(parts) == parts[Len(parts)]

\* String.prototype.includes / a substring search
IsInfix(sub, s) ==
  \E i \in 0..(Len(s) - Len(sub)) : SubSeq(s, i + 1, i + Len(sub)) = sub

\* s < t in code-point order
seqLess(s, t) ==
  LET n == Min(Len(s), Len(t))
      diff == {i \in 1..n : s[i] # t[i]}
  IN IF diff = {} THEN Len(s) < Len(t)
     ELSE LET k == CHOOSE i \in diff : \A j \in diff : i <= j
          IN CharCode(s[k]) < CharCode(t[k])

documentExtensions ==
  {<<"p", "d", "f">>, <<"d", "o", "c">>, <<"d", "o", "c", "x">>,
   <<"t", "x", "t">>, <<"x", "l", "s">>, <<"x", "l", "s", "x">>,
   <<"c", "s", "v">>, <<"r", "t", "f">>, <<"o", "d", "s">>,
   <<"p", "p", "t">>, <<"o", "d", "p">>, <<"m", "d">>,
   <<"h", "t", "m", "l">>, <<"h", "t", "m">>, <<"e", "p", "u", "b">>,
   <<"p", "a", "g", "e", "s">>, <<"f", "i", "g">>, <<"p", "s", "d">>,
   <<"a", "i">>, <<"i", "n", "d", "d">>, <<"x", "d">>,
   <<"s", "k", "e", "t", "c", "h">>,
   <<"a", "f", "d", "e", "s", "i", "g", "n">>,
   <<"a", "f", "p", "h", "o", "t", "o">>,
   <<"a", "f", "p", "h", "o", "t", "o">>}
imageExtensions ==
  {<<"j", "p", "g">>, <<"j", "p", "e", "g">>, <<"p", "n", "g">>,
   <<"g", "i", "f">>, <<"b", "m", "p">>, <<"s", "v", "g">>,
   <<"w", "e", "b", "p">>}
videoExtensions ==
  {<<"m", "p", "4">>, <<"a", "v", "i">>, <<"m", "o", "v">>,
   <<"m", "k", "v">>, <<"w", "e", "b", "m">>}
audioExtensions ==
  {<<"m", "p", "3">>, <<"w", "a", "v">>, <<"o", "g", "g">>,
   <<"f", "l", "a", "c">>}

\* getFileType(fileName): { type, extension }
getFileType(fileName) ==
  LET extension == toLowerCase(pop(split(fileName, ".")))
  IN IF extension = <<>> THEN [type |-> "other", extension |-> <<>>]
     ELSE IF extension \in documentExtensions
       THEN [type |-> "document", extension |-> extension]
     ELSE IF extension \in imageExtensions
       THEN [type |-> "image", extension |-> extension]
     ELSE IF extension \in videoExtensions
       THEN [type |-> "video", extension |-> extension]
     ELSE IF extension \in audioExtensions
       THEN [type |-> "audio", extension |-> extension]
     ELSE [type |-> "other", extension |-> extension]

-----------------------------------------------------------------------------
\* The backend-as-a-service (node-appwrite): queries, accounts, documents,
\* storage.  A server action runs over a context ctx: the backend state db,
\* the backend calls issued so far (log), the answers the backend will give
\* (o), the console output, the revalidated paths and the cookie jar of the
\* request.  A call returns [ok, value, ctx]: ok = FALSE is a rejected
\* promise and value its error.

Emails == {"e1@x.io", "e2@x.io"}
Clients == {"c1", "c2"}
\* the secret the backend mails, and the passwords a user may type
Otps == {"111111"}
PasswordArgs == Otps \cup {"000000"}

\* a document value that is null, and one that is undefined
nullDoc == [js |-> "null"]
undefinedDoc == [js |-> "undefined"]
isDoc(x) == "$id" \in DOMAIN x

NoCookie == [absent |-> TRUE]

Query_or(qs) == [method |-> "or", values |-> qs]
Query_equal(attribute, values) ==
  [method |-> "equal", attribute |-> attribute, values |-> values]
Query_contains(attribute, values) ==
  [method |-> "contains", attribute |-> attribute, values |-> values]
Query_limit(n) == [method |-> "limit", values |-> <<n>>]
Query_orderAsc(attribute) == [method |-> "orderAsc", attribute |-> attribute]
Query_orderDesc(attribute) == [method |-> "orderDesc", attribute |-> attribute]

\* the JavaScript string that a parsed piece spells
text(pieces) == IF pieces = <<>> THEN "" ELSE pieces[1]

\* whether a document passes a filter query
RECURSIVE matches(_, _)
matches(doc, q) ==
  CASE q.method = "or" -> \E i \in 1..Len(q.values) : matches(doc, q.values[i])
    [] q.method = "equal" ->
         \E i \in 1..Len(q.values) : doc[q.attribute] = q.values[i]
    [] q.method = "contains" ->
         IF q.attribute = "users"
         THEN \E i \in 1..Len(q.values) : \E j \in 1..Len(doc[q.attribute]) :
                doc[q.attribute][j] = q.values[i]
         ELSE \E i \in 1..Len(q.values) : IsInfix(q.values[i], doc[q.attribute])
    [] OTHER -> TRUE

matchesAll(doc, queries) == \A i \in 1..Len(queries) : matches(doc, queries[i])

\* a before b under an ordering query
docBefore(a, b, q) ==
  LET attr == text(q.attribute)
      lt(x, y) == IF attr = "name" THEN seqLess(x[attr], y[attr])
                  ELSE x[attr] < y[attr]
  IN IF q.method = "orderAsc" THEN lt(a, b) ELSE lt(b, a)

RECURSIVE insertOrdered(_, _, _)
insertOrdered(sorted, d, q) ==
  IF sorted = <<>> THEN <<d>>
  ELSE IF docBefore(d, Head(sorted), q) THEN <<d>> \o sorted
  ELSE <<Head(sorted)>> \o insertOrdered(Tail(sorted), d, q)

RECURSIVE orderDocs(_, _)
orderDocs(docs, q) ==
  IF docs = <<>> THEN <<>>
  ELSE insertOrdered(orderDocs(SubSeq(docs, 1, Len(docs) - 1), q), docs[Len(docs)], q)

\* the documents a list of queries selects from a collection, in order
runQueries(docs, queries) ==
  LET isOrder(q) == q.method \in {"orderAsc", "orderDesc"}
      isLimit(q) == q.method = "limit"
      found == LET keep(d) == matchesAll(d, queries) IN SelectSeq(docs, keep)
      orders == SelectSeq(queries, isOrder)
      limits == SelectSeq(queries, isLimit)
      ordered == IF orders = <<>> THEN found ELSE orderDocs(found, orders[1])
  IN [total |-> Len(found),
      documents |-> IF limits = <<>> THEN ordered
                    ELSE slice(ordered, 0, limits[1].values[1])]

\* whether the backend answers the next call of the request
answers(ctx) == ctx.o.answers[Len(ctx.log) + 1]

\* the call is recorded, and the backend state replaced
called(ctx, call, arg, ok, db) ==
  [ctx EXCEPT !.log = Append(@, [call |-> call, arg |-> arg, ok |-> ok]),
              !.db = db]

failed(ctx, call, arg) ==
  [ok |-> FALSE, value |-> "AppwriteException", ctx |-> called(ctx, call, arg, FALSE, ctx.db)]

\* ID.unique(): an id the backend has never seen.  The counter moves when the
\* id is stored; it also stamps $createdAt and $updatedAt.
unique(ctx) == toString(ctx.db.nextId + 1)

\* account.createEmailToken(userId, email): the account of the email (created
\* under userId when there is none) gets a token whose secret is mailed
account_createEmailToken(ctx, userId, email) ==
  IF ~answers(ctx) THEN failed(ctx, "account.createEmailToken", email)
  ELSE
    LET known == {a \in ctx.db.accounts : a.email = email}
        id == IF known = {} THEN userId ELSE (CHOOSE a \in known : TRUE).id
        db == [ctx.db EXCEPT
                 !.accounts = @ \cup {[id |-> id, email |-> email]},
                 !.tokens = @ \cup {[userId |-> id, secret |-> ctx.o.otp]},
                 !.nextId = IF known = {} THEN @ + 1 ELSE @]
    IN [ok |-> TRUE, value |-> [userId |-> id],
        ctx |-> called(ctx, "account.createEmailToken", email, TRUE, db)]

\* account.createSession(userId, secret): succeeds for a token of the account
account_createSession(ctx, userId, secret) ==
  LET token == [userId |-> userId, secret |-> secret]
      arg == token
  IN IF ~answers(ctx) \/ token \notin ctx.db.tokens
     THEN failed(ctx, "account.createSession", arg)
     ELSE
       LET session == [id |-> unique(ctx), secret |-> unique(ctx), userId |-> userId]
           db == [ctx.db EXCEPT !.tokens = @ \ {token},
                                !.sessions = @ \cup {session},
                                !.nextId = @ + 1]
       IN [ok |-> TRUE, value |-> session,
           ctx |-> called(ctx, "account.createSession", arg, TRUE, db)]

\* account.get() of a session client
account_get(ctx, secret) ==
  LET mine == {s \in ctx.db.sessions : s.secret = secret}
  IN IF ~answers(ctx) \/ mine = {} THEN failed(ctx, "account.get", secret)
     ELSE [ok |-> TRUE, value |-> [id |-> (CHOOSE s \in mine : TRUE).userId],
           ctx |-> called(ctx, "account.get", secret, TRUE, ctx.db)]

\* account.deleteSession("current") of a session client
account_deleteSession(ctx, secret) ==
  LET mine == {s \in ctx.db.sessions : s.secret = secret}
  IN IF ~answers(ctx) \/ mine = {} THEN failed(ctx, "account.deleteSession", secret)
     ELSE [ok |-> TRUE, value |-> [deleted |-> TRUE],
           ctx |-> called(ctx, "account.deleteSession", secret, TRUE,
                          [ctx.db EXCEPT !.sessions = @ \ mine])]

\* databases.listDocuments(databaseId, collectionId, queries)
databases_listDocuments(ctx, collection, queries) ==
  LET arg == [collection |-> collection, queries |-> queries]
  IN IF ~answers(ctx) THEN failed(ctx, "databases.listDocuments", arg)
     ELSE [ok |-> TRUE, value |-> runQueries(ctx.db[collection], queries),
           ctx |-> called(ctx, "databases.listDocuments", arg, TRUE, ctx.db)]

\* databases.createDocument(databaseId, collectionId, documentId, data)
databases_createDocument(ctx, collection, id, data) ==
  LET arg == [collection |-> collection, id |-> id, data |-> data]
      now == ctx.db.nextId + 1
      doc == ("$id" :> id) @@ ("$createdAt" :> now) @@ ("$updatedAt" :> now) @@ data
  IN IF ~answers(ctx) THEN failed(ctx, "databases.createDocument", arg)
     ELSE [ok |-> TRUE, value |-> doc,
           ctx |-> called(ctx, "databases.createDocument", arg, TRUE,
                          [ctx.db EXCEPT ![collection] = Append(@, doc),
                                         !.nextId = now])]

\* where the document with this id is in the collection (0: nowhere)
indexOf(docs, id) ==
  IF \E i \in 1..Len(docs) : docs[i]["$id"] = id
  THEN CHOOSE i \in 1..Len(docs) : docs[i]["$id"] = id
  ELSE 0

\* databases.updateDocument(databaseId, collectionId, documentId, data)
databases_updateDocument(ctx, collection, id, data) ==
  LET arg == [collection |-> collection, id |-> id, data |-> data]
      k == indexOf(ctx.db[collection], id)
      now == ctx.db.nextId + 1
      doc == ("$updatedAt" :> now) @@ spread(ctx.db[collection][k], data)
  IN IF ~answers(ctx) \/ k = 0 THEN failed(ctx, "databases.updateDocument", arg)
     ELSE [ok |-> TRUE, value |-> doc,
           ctx |-> called(ctx, "databases.updateDocument", arg, TRUE,
                          [ctx.db EXCEPT ![collection] = [@ EXCEPT ![k] = doc],
                                         !.nextId = now])]

\* databases.deleteDocument(databaseId, collectionId, documentId): resolves
\* with an (empty, truthy) object
databases_deleteDocument(ctx, collection, id) ==
  LET arg == [collection |-> collection, id |-> id]
      keep(d) == d["$id"] # id
  IN IF ~answers(ctx) \/ indexOf(ctx.db[collection], id) = 0
     THEN failed(ctx, "databases.deleteDocument", arg)
     ELSE [ok |-> TRUE, value |-> [deleted |-> TRUE],
           ctx |-> called(ctx, "databases.deleteDocument", arg, TRUE,
                          [ctx.db EXCEPT ![collection] = SelectSeq(@, keep)])]

\* storage.createFile(bucketId, fileId, inputFile)
storage_createFile(ctx, id, inputFile) ==
  LET blob == [id |-> id, name |-> inputFile.name, sizeOriginal |-> inputFile.size]
  IN IF ~answers(ctx) THEN failed(ctx, "storage.createFile", id)
     ELSE [ok |-> TRUE, value |-> blob,
           ctx |-> called(ctx, "storage.createFile", id, TRUE,
                          [ctx.db EXCEPT !.bucket = @ \cup {blob},
                                         !.nextId = @ + 1])]

\* storage.deleteFile(bucketId, fileId)
storage_deleteFile(ctx, id) ==
  LET mine == {b \in ctx.db.bucket : b.id = id}
  IN IF ~answers(ctx) \/ mine = {} THEN failed(ctx, "storage.deleteFile", id)
     ELSE [ok |-> TRUE, value |-> [deleted |-> TRUE],
           ctx |-> called(ctx, "storage.deleteFile", id, TRUE,
                          [ctx.db EXCEPT !.bucket = @ \ mine])]

\* console.log(...)
consoleLog(ctx, message) == [ctx EXCEPT !.console = Append(@, message)]

\* revalidatePath(path)
revalidatePath(ctx, path) == [ctx EXCEPT !.revalidated = Append(@, path)]

\* handleError(error, message): logs, then throws the error it was given
handleError(ctx, error, message) ==
  [ok |-> FALSE, value |-> error, ctx |-> consoleLog(ctx, message)]

\* how a server action or a page render ends
Ret(v) == [kind |-> "return", value |-> v]
Throw(e) == [kind |-> "throw", error |-> e]
Redirect(to) == [kind |-> "redirect", to |-> to]

\* createSessionClient(): needs the session cookie of the request
createSessionClient(ctx) ==
  IF ctx.jar = NoCookie \/ ctx.jar.value = ""
  THEN [ok |-> FALSE, value |-> "No session", ctx |-> ctx]
  ELSE [ok |-> TRUE, value |-> [session |-> ctx.jar.value], ctx |-> ctx]

-----------------------------------------------------------------------------
\* lib/actions/user.actions.ts and app/(root)/layout.tsx
\* A handler returns [result, ctx, info].

avatarPlaceholderUrl == "https://img.freepik.com/.../3d-illustration-person-with-sunglasses.jpg"

noInfo == [none |-> TRUE]

\* getUserByEmail(email): the first user document with the email, or null
getUserByEmail(ctx, email) ==
  LET r == databases_listDocuments(ctx, "users", <<Query_equal("email", <<email>>)>>)
  IN IF ~r.ok THEN r
     ELSE [ok |-> TRUE,
           value |-> IF r.value.total > 0 THEN r.value.documents[1] ELSE nullDoc,
           ctx |-> r.ctx]

\* sendEmailOTP({ email }): the account id the token was made for
sendEmailOTP(ctx, email) ==
  LET r == account_createEmailToken(ctx, unique(ctx), email)
  IN IF r.ok THEN [ok |-> TRUE, value |-> r.value.userId, ctx |-> r.ctx]
     ELSE handleError(r.ctx, r.value, "Failed to send email OTP")

\* createAccount creating the user document whatever the lookup found
shouldCreateUserAlways(existingUser) == TRUE

\* createAccount's test if (!existingUser)
shouldCreateUser(existingUser) == ~isDoc(existingUser)

\* createAccount({ fullName, email })
createAccount(ctx, fullName, email) ==
  LET u == getUserByEmail(ctx, email)
  IN IF ~u.ok THEN [result |-> Throw(u.value), ctx |-> u.ctx, info |-> noInfo]
     ELSE
       LET s == sendEmailOTP(u.ctx, email)
           info == [existingUser |-> u.value]
       IN IF ~s.ok THEN [result |-> Throw(s.value), ctx |-> s.ctx, info |-> info]
          ELSE IF ~truthy(s.value)
            THEN [result |-> Throw("Failed to send an OTP"), ctx |-> s.ctx, info |-> info]
          ELSE IF shouldCreateUser(u.value)
            THEN LET c == databases_createDocument(s.ctx, "users", unique(s.ctx),
                            [fullName |-> fullName, email |-> email,
                             avatar |-> avatarPlaceholderUrl, accountId |-> s.value])
                 IN IF ~c.ok
                    THEN [result |-> Throw(c.value), ctx |-> c.ctx, info |-> info]
                    ELSE [result |-> Ret([accountId |-> s.value]), ctx |-> c.ctx,
                          info |-> info]
          ELSE [result |-> Ret([accountId |-> s.value]), ctx |-> s.ctx, info |-> info]

\* the 'appwrite-session' cookie that verifySecret sets
sessionCookie(secret) ==
  [value |-> secret, path |-> "/", httpOnly |-> TRUE, sameSite |-> "strict",
   secure |-> TRUE]

\* verifySecret's catch, had the cookie been written before the session call
verifySecretFailedCookieSet(ctx, error) ==
  [result |-> Throw(error),
   ctx |-> [consoleLog(ctx, "Failed to verify OTP") EXCEPT !.jar = sessionCookie("")],
   info |-> noInfo]

\* verifySecret's catch: handleError(error, "Failed to verify OTP")
verifySecretFailed(ctx, error) ==
  [result |-> Throw(handleError(ctx, error, "Failed to verify OTP").value),
   ctx |-> handleError(ctx, error, "Failed to verify OTP").ctx,
   info |-> noInfo]

\* verifySecret({ accountId, password })
verifySecret(ctx, accountId, password) ==
  LET s == account_createSession(ctx, accountId, password)
  IN IF ~s.ok THEN verifySecretFailed(s.ctx, s.value)
     ELSE [result |-> Ret([sessionId |-> s.value.id]),
           ctx |-> [s.ctx EXCEPT !.jar = sessionCookie(s.value.secret)],
           info |-> [session |-> s.value]]

\* getCurrentUser's catch, rethrowing as handleError does
getCurrentUserRethrow(ctx, error) ==
  [result |-> Throw(error), ctx |-> consoleLog(ctx, error), info |-> noInfo]

\* getCurrentUser's catch: console.log(error), and the function ends
\* without a return value
getCurrentUserCatch(ctx, error) ==
  [result |-> Ret(undefinedDoc), ctx |-> consoleLog(ctx, error), info |-> noInfo]

\* getCurrentUser()
getCurrentUser(ctx) ==
  LET sc == createSessionClient(ctx)
  IN IF ~sc.ok THEN getCurrentUserCatch(sc.ctx, sc.value)
     ELSE
       LET g == account_get(sc.ctx, sc.value.session)
       IN IF ~g.ok THEN getCurrentUserCatch(g.ctx, g.value)
          ELSE
            LET l == databases_listDocuments(g.ctx, "users",
                       <<Query_equal("accountId", <<g.value.id>>)>>)
            IN IF ~l.ok THEN getCurrentUserCatch(l.ctx, l.value)
               ELSE IF l.value.total <= 0
                 THEN [result |-> Ret(nullDoc), ctx |-> l.ctx, info |-> noInfo]
               ELSE [result |-> Ret(l.value.documents[1]), ctx |-> l.ctx,
                     info |-> noInfo]

\* Layout({ children }) of the authenticated pages
Layout(ctx) ==
  LET u == getCurrentUser(ctx)
  IN IF u.result.kind = "throw"
     THEN [result |-> u.result, ctx |-> u.ctx, info |-> noInfo]
     ELSE IF ~isDoc(u.result.value)
       THEN [result |-> Redirect("/sign-in"), ctx |-> u.ctx,
             info |-> [currentUser |-> u.result.value]]
     ELSE [result |-> [kind |-> "render", children |-> TRUE,
                       userId |-> u.result.value["$id"],
                       accountId |-> u.result.value.accountId],
           ctx |-> u.ctx, info |-> [currentUser |-> u.result.value]]

\* signOutUser(): createSessionClient is called before the try block
signOutUser(ctx) ==
  LET sc == createSessionClient(ctx)
  IN IF ~sc.ok THEN [result |-> Throw(sc.value), ctx |-> sc.ctx, info |-> noInfo]
     ELSE
       LET d == account_deleteSession(sc.ctx, sc.value.session)
       IN IF d.ok
          THEN [result |-> Redirect("/sign-in"),
                ctx |-> [d.ctx EXCEPT !.jar = NoCookie], info |-> noInfo]
          ELSE \* catch: handleError rethrows; finally: redirect replaces the error
               [result |-> Redirect("/sign-in"),
                ctx |-> handleError(d.ctx, d.value, "Failed to sign out user").ctx,
                info |-> noInfo]

\* signInUser's answer for an unknown email, thrown instead of returned
signInNotFoundThrows(ctx) ==
  [result |-> Throw("User not found"), ctx |-> ctx, info |-> [existingUser |-> nullDoc]]

\* signInUser's answer for an unknown email
signInNotFound(ctx) ==
  [result |-> Ret([accountId |-> Null, error |-> "User not found"]), ctx |-> ctx,
   info |-> [existingUser |-> nullDoc]]

\* signInUser({ email })
signInUser(ctx, email) ==
  LET u == getUserByEmail(ctx, email)
  IN IF ~u.ok
     THEN [result |-> Throw(handleError(u.ctx, u.value, "Failed to sign in user").value),
           ctx |-> handleError(u.ctx, u.value, "Failed to sign in user").ctx,
           info |-> noInfo]
     ELSE IF isDoc(u.value)
       THEN LET s == sendEmailOTP(u.ctx, email)
            IN IF ~s.ok
               THEN [result |-> Throw(handleError(s.ctx, s.value, "Failed to sign in user").value),
                     ctx |-> handleError(s.ctx, s.value, "Failed to sign in user").ctx,
                     info |-> [existingUser |-> u.value]]
               ELSE [result |-> Ret([accountId |-> u.value.accountId]), ctx |-> s.ctx,
                     info |-> [existingUser |-> u.value]]
     ELSE signInNotFound(u.ctx)

-----------------------------------------------------------------------------
\* lib/actions/file.actions.ts

\* constructFileUrl(bucketFileId)
constructFileUrl(bucketFileId) == [view |-> bucketFileId]

\* uploadFile's rollback left out: the blob stays
uploadNoRollback(ctx, bucketFileId) ==
  [ok |-> TRUE, value |-> [deleted |-> FALSE], ctx |-> ctx]

\* uploadFile's rollback: storage.deleteFile(bucketId, bucketFile.$id)
uploadRollback(ctx, bucketFileId) == storage_deleteFile(ctx, bucketFileId)

\* uploadFile({ file, ownerId, accountId, path })
uploadFile(ctx, file, ownerId, accountId, path) ==
  LET cf == storage_createFile(ctx, unique(ctx), file)
  IN IF ~cf.ok
     THEN [result |-> Throw(cf.value),
           ctx |-> handleError(cf.ctx, cf.value, "Failed to upload file").ctx,
           info |-> noInfo]
     ELSE
       LET bucketFile == cf.value
           fileDocument ==
             [type |-> getFileType(bucketFile.name).type,
              name |-> bucketFile.name,
              url |-> constructFileUrl(bucketFile.id),
              extension |-> getFileType(bucketFile.name).extension,
              size |-> bucketFile.sizeOriginal,
              owner |-> ownerId,
              accountId |-> accountId,
              users |-> <<>>,
              bucketFileId |-> bucketFile.id]
           cd == databases_createDocument(cf.ctx, "files", unique(cf.ctx), fileDocument)
           info == [bucketFile |-> bucketFile]
       IN IF cd.ok
          THEN [result |-> Ret(cd.value), ctx |-> revalidatePath(cd.ctx, path),
                info |-> info]
          ELSE
            \* .catch: roll the upload back, then handleError
            LET rb == uploadRollback(cd.ctx, bucketFile.id)
            IN IF ~rb.ok
               THEN [result |-> Throw(rb.value),
                     ctx |-> handleError(rb.ctx, rb.value, "Failed to upload file").ctx,
                     info |-> info]
               ELSE [result |-> Throw(cd.value),
                     ctx |-> handleError(
                               handleError(rb.ctx, cd.value,
                                           "Failed to create file document").ctx,
                               cd.value, "Failed to upload file").ctx,
                     info |-> info]

\* createQueries' first query replaced by one that every file passes
visibilityQueryNone(currentUser) == Query_contains("name", <<<<>>>>)

\* createQueries' first query: files owned by the user or shared with their email
visibilityQuery(currentUser) ==
  Query_or(<<Query_equal("owner", <<currentUser["$id"]>>),
             Query_contains("users", <<currentUser.email>>)>>)

\* createQueries with an ordering clause that is descending whatever follows
\* the '-'
createQueriesDescOnly(currentUser, types, searchText, sort, limit) ==
  <<visibilityQuery(currentUser)>>
    \o (IF Len(types) > 0 THEN <<Query_equal("type", types)>> ELSE <<>>)
    \o (IF searchText # <<>> THEN <<Query_contains("name", <<searchText>>)>> ELSE <<>>)
    \o (IF limit # 0 THEN <<Query_limit(limit)>> ELSE <<>>)
    \o (IF sort # <<>> THEN <<Query_orderDesc(split(sort, "-")[1])>> ELSE <<>>)

\* createQueries(currentUser, types, searchText, sort, limit); limit 0 stands
\* for a limit that is 0 or undefined
createQueries(currentUser, types, searchText, sort, limit) ==
  <<visibilityQuery(currentUser)>>
    \o (IF Len(types) > 0 THEN <<Query_equal("type", types)>> ELSE <<>>)
    \o (IF searchText # <<>> THEN <<Query_contains("name", <<searchText>>)>> ELSE <<>>)
    \o (IF limit # 0 THEN <<Query_limit(limit)>> ELSE <<>>)
    \o (IF sort # <<>>
        THEN LET parts == split(sort, "-")
                 sortBy == parts[1]
                 orderBy == IF Len(parts) >= 2 THEN parts[2] ELSE <<Undefined>>
             IN <<IF orderBy = <<"asc">> THEN Query_orderAsc(sortBy)
                  ELSE Query_orderDesc(sortBy)>>
        ELSE <<>>)

\* a sort argument that was not given
undefinedSort == <<Undefined>>

\* getFiles({ types = [], searchText = "", sort = "$createdAt-desc", limit })
getFiles(ctx, types, searchText, sortArg, limit) ==
  LET sort == IF sortArg = undefinedSort THEN <<"$createdAt", "-", "desc">> ELSE sortArg
      u == getCurrentUser(ctx)
      currentUser == u.result.value
      info == [currentUser |-> currentUser]
  IN IF ~isDoc(currentUser)
     THEN [result |-> Throw("User not found"),
           ctx |-> handleError(u.ctx, "User not found", "Failed to get files").ctx,
           info |-> info]
     ELSE
       LET queries == createQueries(currentUser, types, searchText, sort, limit)
           l == databases_listDocuments(u.ctx, "files", queries)
           asked == [currentUser |-> currentUser, queries |-> queries]
       IN IF ~l.ok
          THEN [result |-> Throw(l.value),
                ctx |-> handleError(l.ctx, l.value, "Failed to get files").ctx,
                info |-> asked]
          ELSE [result |-> Ret(l.value), ctx |-> consoleLog(l.ctx, "files"),
                info |-> asked]

\* renameFile({ fileId, name, extension, path })
renameFile(ctx, fileId, name, extension, path) ==
  LET newName == name \o <<".">> \o extension
      r == databases_updateDocument(ctx, "files", fileId, [name |-> newName])
  IN IF ~r.ok
     THEN [result |-> Throw(r.value),
           ctx |-> handleError(r.ctx, r.value, "Failed to rename file").ctx,
           info |-> noInfo]
     ELSE [result |-> Ret(r.value), ctx |-> revalidatePath(r.ctx, path), info |-> noInfo]

\* updateFileUsers with a catch that logs the error and does not rethrow it
updateFileUsersSwallow(ctx, fileId, emails, path) ==
  LET r == databases_updateDocument(ctx, "files", fileId, [users |-> emails])
  IN IF ~r.ok
     THEN [result |-> Ret(undefinedDoc),
           ctx |-> consoleLog(r.ctx, "Failed to update file users"), info |-> noInfo]
     ELSE [result |-> Ret(r.value), ctx |-> revalidatePath(r.ctx, path), info |-> noInfo]

\* updateFileUsers({ fileId, emails, path })
updateFileUsers(ctx, fileId, emails, path) ==
  LET r == databases_updateDocument(ctx, "files", fileId, [users |-> emails])
  IN IF ~r.ok
     THEN [result |-> Throw(r.value),
           ctx |-> handleError(r.ctx, r.value, "Failed to update file users").ctx,
           info |-> noInfo]
     ELSE [result |-> Ret(r.value), ctx |-> revalidatePath(r.ctx, path), info |-> noInfo]

\* deleteFile with the two deletions swapped: the blob first
deleteFileBlobFirst(ctx, fileId, bucketFileId, path) ==
  LET s == storage_deleteFile(ctx, bucketFileId)
  IN IF ~s.ok
     THEN [result |-> Throw(s.value),
           ctx |-> handleError(s.ctx, s.value, "Failed to delete file").ctx,
           info |-> noInfo]
     ELSE
       LET d == databases_deleteDocument(s.ctx, "files", fileId)
       IN IF ~d.ok
          THEN [result |-> Throw(d.value),
                ctx |-> handleError(d.ctx, d.value, "Failed to delete file").ctx,
                info |-> noInfo]
          ELSE [result |-> Ret([status |-> "success"]),
                ctx |-> revalidatePath(d.ctx, path), info |-> noInfo]

\* deleteFile({ fileId, bucketFileId, path })
deleteFile(ctx, fileId, bucketFileId, path) ==
  LET d == databases_deleteDocument(ctx, "files", fileId)
  IN IF ~d.ok
     THEN [result |-> Throw(d.value),
           ctx |-> handleError(d.ctx, d.value, "Failed to delete file").ctx,
           info |-> noInfo]
     ELSE
       \* if (deletedFile): the resolved value is an object
       LET s == storage_deleteFile(d.ctx, bucketFileId)
       IN IF ~s.ok
          THEN [result |-> Throw(s.value),
                ctx |-> handleError(s.ctx, s.value, "Failed to delete file").ctx,
                info |-> noInfo]
          ELSE [result |-> Ret([status |-> "success"]),
                ctx |-> revalidatePath(s.ctx, path), info |-> noInfo]

\* A JavaScript number that can exceed the integers of the model, as
\* hi * 2^20 + lo with 0 <= lo < 2^20
Mega == 1048576
number(n) == [hi |-> n \div Mega, lo |-> n % Mega]

\* x * k for a small k
times(x, k) ==
  [hi |-> x.hi * k + (x.lo * k) \div Mega, lo |-> (x.lo * k) % Mega]

\* totalSpace before the files are added; a date string is <<>> when empty
\* and <<t>> for the timestamp t
emptySpace ==
  [image |-> [size |-> 0, latestDate |-> <<>>],
   document |-> [size |-> 0, latestDate |-> <<>>],
   video |-> [size |-> 0, latestDate |-> <<>>],
   audio |-> [size |-> 0, latestDate |-> <<>>],
   other |-> [size |-> 0, latestDate |-> <<>>],
   used |-> 0,
   all |-> times(times(times(number(2), 1024), 1024), 1024)]

\* the forEach body with the date test left out: the date of the last file
addFileLastDate(totalSpace, file) ==
  [totalSpace EXCEPT
     ![file.type] = [size |-> @.size + file.size, latestDate |-> <<file["$updatedAt"]>>],
     !.used = @ + file.size]

\* the body of files.documents.forEach in getTotalSpaceUsed
addFile(totalSpace, file) ==
  LET fileType == file.type
      latestDate == totalSpace[fileType].latestDate
      newer == latestDate = <<>> \/ file["$updatedAt"] > latestDate[1]
  IN [totalSpace EXCEPT
        ![fileType] = [size |-> @.size + file.size,
                       latestDate |-> IF newer THEN <<file["$updatedAt"]>> ELSE @.latestDate],
        !.used = @ + file.size]

\* files.documents.forEach(...) from totalSpace
RECURSIVE forEachFile(_, _)
forEachFile(totalSpace, documents) ==
  IF documents = <<>> THEN totalSpace
  ELSE forEachFile(addFile(totalSpace, Head(documents)), Tail(documents))

\* getTotalSpaceUsed()
getTotalSpaceUsed(ctx) ==
  LET message == "Error calculating total space used"
      sc == createSessionClient(ctx)
  IN IF ~sc.ok
     THEN [result |-> Throw(sc.value),
           ctx |-> handleError(sc.ctx, sc.value, message).ctx, info |-> noInfo]
     ELSE
       LET u == getCurrentUser(sc.ctx)
           currentUser == u.result.value
       IN IF ~isDoc(currentUser)
          THEN [result |-> Throw("User is not authenticated."),
                ctx |-> handleError(u.ctx, "User is not authenticated.", message).ctx,
                info |-> noInfo]
          ELSE
            LET l == databases_listDocuments(
                       u.ctx, "files", <<Query_equal("owner", <<currentUser["$id"]>>)>>)
            IN IF ~l.ok
               THEN [result |-> Throw(l.value),
                     ctx |-> handleError(l.ctx, l.value, message).ctx,
                     info |-> noInfo]
               ELSE [result |-> Ret(forEachFile(emptySpace, l.value.documents)),
                     ctx |-> l.ctx,
                     info |-> [currentUser |-> currentUser, files |-> l.value]]

-----------------------------------------------------------------------------
\* Requests: a browser calls a server action or renders a page

\* the answers of the backend to the n calls a request can make, and the
\* secret of a token it mails
Oracles(n) == [answers : [1..n -> BOOLEAN], otp : Otps]

request(c, o) ==
  [db |-> backend, log |-> <<>>, o |-> o, console |-> <<>>, revalidated |-> <<>>,
   jar |-> cookie[c]]

\* Requests are served one after another.  No handler reads `last`, so a
\* request that changed neither the backend nor a cookie can be followed by
\* exactly what could follow the state before it: further requests are
\* explored only after a request that changed something.
Settled == last.changed

\* the request ends: the backend and the browser's cookie are as the handler
\* left them
served(op, c, args, r) ==
  /\ backend' = r.ctx.db
  /\ cookie' = [cookie EXCEPT ![c] = r.ctx.jar]
  /\ last' = [op |-> op, client |-> c, args |-> args, result |-> r.result,
              log |-> r.ctx.log, console |-> r.ctx.console,
              revalidated |-> r.ctx.revalidated, info |-> r.info,
              changed |-> (r.ctx.db # backend \/ r.ctx.jar # cookie[c])]

\* a server action called on its own: no component is involved
respond(op, c, args, r) ==
  /\ Settled
  /\ served(op, c, args, r)
  /\ UNCHANGED toastVars
  /\ UNCHANGED uploaderVars
  /\ UNCHANGED componentVars

\* ids still free under the bound
room(n, limit) == backend.nextId + n <= limit

CreateAccount ==
  \E c \in Clients, email \in Emails, o \in Oracles(3) :
    /\ room(2, MaxIds)
    /\ respond("createAccount", c, [fullName |-> "Full Name", email |-> email],
               createAccount(request(c, o), "Full Name", email))

\* the account ids a browser may send: those of the accounts, and one of none
AccountIdArgs == {a.id : a \in backend.accounts} \cup {"0"}

VerifySecret ==
  \E c \in Clients, accountId \in AccountIdArgs, password \in PasswordArgs, o \in Oracles(1) :
    /\ room(1, MaxIds)
    /\ respond("verifySecret", c, [accountId |-> accountId, password |-> password],
               verifySecret(request(c, o), accountId, password))

SignInUser ==
  \E c \in Clients, email \in Emails, o \in Oracles(2) :
    respond("signInUser", c, [email |-> email], signInUser(request(c, o), email))

SignOutUser ==
  \E c \in Clients, o \in Oracles(1) :
    /\ c \in Clients
    /\ respond("signOutUser", c, noInfo, signOutUser(request(c, o)))

RenderLayout ==
  \E c \in Clients, o \in Oracles(2) :
    respond("Layout", c, noInfo, Layout(request(c, o)))

\* before any component is used
InitComponents ==
  /\ dropdown = [mounted |-> FALSE]
  /\ authForm = [isLoading |-> FALSE, errorMessage |-> "", accountId |-> Null]
  /\ search = [mounted |-> FALSE]
  /\ probe = [fn |-> "none"]

InitBackend ==
  /\ backend = [accounts |-> {}, tokens |-> {}, sessions |-> {}, users |-> <<>>,
                files |-> <<>>, bucket |-> {}, nextId |-> 0]
  /\ cookie = [c \in Clients |-> NoCookie]
  /\ last = [op |-> "none", changed |-> TRUE]

\* the files pages: both users have signed up and are signed in, each in
\* their own browser
SignedInBackend ==
  LET user(id, now, email, accountId) ==
        ("$id" :> id) @@ ("$createdAt" :> now) @@ ("$updatedAt" :> now)
          @@ [fullName |-> "Full Name", email |-> email,
              avatar |-> avatarPlaceholderUrl, accountId |-> accountId]
  IN [accounts |-> {[id |-> "1", email |-> "e1@x.io"], [id |-> "4", email |-> "e2@x.io"]},
      tokens |-> {},
      sessions |-> {[id |-> "3", secret |-> "3", userId |-> "1"],
                    [id |-> "6", secret |-> "6", userId |-> "4"]},
      users |-> <<user("2", 2, "e1@x.io", "1"), user("5", 5, "e2@x.io", "4")>>,
      files |-> <<>>, bucket |-> {}, nextId |-> 6]

SignedInCookies == ("c1" :> sessionCookie("3")) @@ ("c2" :> sessionCookie("6"))

InitFiles ==
  /\ backend = SignedInBackend
  /\ cookie = SignedInCookies
  /\ last = [op |-> "none", changed |-> TRUE]

FilesLimit == SignedInBackend.nextId + MaxFileWrites

\* the user the pages of this browser were rendered for
pageUser(c) ==
  LET s == CHOOSE s \in backend.sessions : s.secret = cookie[c].value
  IN backend.users[CHOOSE i \in 1..Len(backend.users) :
                     backend.users[i].accountId = s.userId]

UploadFiles == {[name |-> NameA, size |-> 1024], [name |-> NameB, size |-> 2048]}
Paths == {"/"}

\* FileUploader passes the ids of the user of the page
UploadFile ==
  \E c \in Clients, file \in UploadFiles, o \in Oracles(3) :
    /\ room(2, FilesLimit)
    /\ respond("uploadFile", c, [file |-> file],
               uploadFile(request(c, o), file, pageUser(c)["$id"],
                          pageUser(c).accountId, "/"))

TypeArgs == {<<>>, <<"image">>, <<"document", "image">>}
SearchArgs == {<<>>, <<"a">>}
SortArgs == {undefinedSort, <<>>, <<"name", "-", "asc">>, <<"size", "-", "desc">>}
LimitArgs == {0, 1}

GetFiles ==
  \E c \in Clients, types \in TypeArgs, searchText \in SearchArgs,
     sort \in SortArgs, limit \in LimitArgs, o \in Oracles(3) :
    respond("getFiles", c,
            [types |-> types, searchText |-> searchText, sort |-> sort, limit |-> limit],
            getFiles(request(c, o), types, searchText, sort, limit))

\* ActionDropdown on a listed file: rename, share, delete
RenameFile ==
  \E c \in Clients, i \in 1..Len(backend.files), name \in {<<"c">>}, o \in Oracles(1) :
    /\ room(1, FilesLimit)
    /\ respond("renameFile", c, [fileId |-> backend.files[i]["$id"], name |-> name],
               renameFile(request(c, o), backend.files[i]["$id"], name,
                          backend.files[i].extension, "/"))

EmailLists == {<<>>, <<"e1@x.io">>, <<"e2@x.io">>, <<"e1@x.io", "e2@x.io">>}

UpdateFileUsers ==
  \E c \in Clients, i \in 1..Len(backend.files), emails \in EmailLists, o \in Oracles(1) :
    /\ room(1, FilesLimit)
    /\ respond("updateFileUsers", c,
               [fileId |-> backend.files[i]["$id"], emails |-> emails],
               updateFileUsers(request(c, o), backend.files[i]["$id"], emails, "/"))

\* the files a browser may ask to delete: those listed, and one that is no
\* longer there (a page that still shows a deleted file)
DeleteArgs ==
  {[fileId |-> backend.files[i]["$id"], bucketFileId |-> backend.files[i].bucketFileId] :
     i \in 1..Len(backend.files)}
    \cup {[fileId |-> "0", bucketFileId |-> "0"]}

DeleteFile ==
  \E c \in Clients, a \in DeleteArgs, o \in Oracles(2) :
    respond("deleteFile", c, a,
            deleteFile(request(c, o), a.fileId, a.bucketFileId, "/"))

\* the dashboard asks for the usage summary
GetTotalSpaceUsed ==
  \E c \in Clients, o \in Oracles(3) :
    respond("getTotalSpaceUsed", c, noInfo, getTotalSpaceUsed(request(c, o)))

\* The usage summary over any stored files: how many files the collection
\* holds at the start
MaxUsageFiles == 2

FileTypes == {"document", "image", "video", "audio", "other"}

\* the documents of the first user's files, and one of the second user's
UsageDocs ==
  {[type |-> t, size |-> n, owner |-> "2", updatedAt |-> at] :
     t \in FileTypes, n \in {1024, 3000}, at \in {7, 8}}
    \cup {[type |-> "image", size |-> 500, owner |-> "5", updatedAt |-> 9]}

usageFile(d, i) ==
  ("$id" :> toString(9 + i)) @@ ("$createdAt" :> 7) @@ ("$updatedAt" :> d.updatedAt)
    @@ [type |-> d.type, name |-> NameA, url |-> constructFileUrl("0"),
        extension |-> <<"p", "n", "g">>, size |-> d.size, owner |-> d.owner,
        accountId |-> IF d.owner = "2" THEN "1" ELSE "4", users |-> <<>>,
        bucketFileId |-> "0"]

InitUsage ==
  /\ InitToast /\ InitUploader /\ InitComponents
  /\ \E ds \in SeqsUpTo(UsageDocs, MaxUsageFiles) :
       backend = [SignedInBackend EXCEPT
                    !.files = [i \in 1..Len(ds) |-> usageFile(ds[i], i)],
                    !.nextId = 9 + MaxUsageFiles + 1]
  /\ cookie = SignedInCookies
  /\ last = [op |-> "none", changed |-> TRUE]

-----------------------------------------------------------------------------
\* components/ActionDropdown.tsx: the actions menu of one listed file, in the
\* browser of its owner.  The share dialog shows file.users, each with a
\* remove button, and an input whose value becomes the `emails` state.

\* how many times the users list of the file is written
MaxShareWrites == 3

\* the addresses a file is shared with
ShareEmails == {"e2@x.io", "e3@x.io"}

\* e.target.value.trim().split(","): the lists the input can hold ("" when
\* the input is empty)
TypedEmails ==
  {<<"">>, <<"e2@x.io">>, <<"e3@x.io">>, <<"e2@x.io", "e3@x.io">>}

\* the backend once the first user has uploaded a file
ShareBackend ==
  uploadFile([db |-> SignedInBackend, log |-> <<>>,
              o |-> [answers |-> [k \in 1..3 |-> TRUE], otp |-> "111111"],
              console |-> <<>>, revalidated |-> <<>>, jar |-> SignedInCookies["c1"]],
             [name |-> NameA, size |-> 1024], "2", "1", "/").ctx.db

ShareLimit == ShareBackend.nextId + MaxShareWrites

\* the useState initial values of the component rendered for a file
mounted(file) ==
  [file |-> file, isModalOpen |-> FALSE, isDropdownOpen |-> FALSE,
   action |-> Null, name |-> file.name, isLoading |-> FALSE, emails |-> <<>>]

\* closeAllModals()
closeAllModals(d) ==
  [d EXCEPT !.isModalOpen = FALSE, !.isDropdownOpen = FALSE, !.action = Null,
            !.name = d.file.name]

\* the file prop after revalidatePath(path): the page is rendered again with
\* the stored document
rerendered(d, db) ==
  LET k == indexOf(db.files, d.file["$id"])
  IN IF k = 0 THEN d ELSE [d EXCEPT !.file = db.files[k]]

\* handleRemoveUser: emails.filter((e) => e !== email)
updatedEmails(d, email) ==
  LET keep(e) == e # email IN SelectSeq(d.emails, keep)

\* the dropdown is opened and closed (DropdownMenu onOpenChange)
ToggleDropdown ==
  /\ ~dropdown.isModalOpen
  /\ dropdown' = [dropdown EXCEPT !.isDropdownOpen = ~@]
  /\ UNCHANGED <<authForm, search, probe>>
  /\ UNCHANGED toastVars /\ UNCHANGED uploaderVars /\ UNCHANGED serverVars

\* onClick of the dropdown item "share": setAction, setIsModalOpen(true)
SelectShare ==
  /\ dropdown.isDropdownOpen
  /\ dropdown' = [dropdown EXCEPT !.action = "share", !.isModalOpen = TRUE]
  /\ UNCHANGED <<authForm, search, probe>>
  /\ UNCHANGED toastVars /\ UNCHANGED uploaderVars /\ UNCHANGED serverVars

\* onInputChange = setEmails: the input of the share dialog changes
OnInputChange ==
  \E typed \in TypedEmails :
    /\ dropdown.isModalOpen /\ dropdown.action = "share"
    /\ dropdown' = [dropdown EXCEPT !.emails = typed]
    /\ UNCHANGED <<authForm, search, probe>>
    /\ UNCHANGED toastVars /\ UNCHANGED uploaderVars /\ UNCHANGED serverVars

\* Cancel: closeAllModals
CancelModal ==
  /\ dropdown.isModalOpen
  /\ dropdown' = closeAllModals(dropdown)
  /\ UNCHANGED <<authForm, search, probe>>
  /\ UNCHANGED toastVars /\ UNCHANGED uploaderVars /\ UNCHANGED serverVars

\* the page is loaded again: the component is mounted anew for the stored file
Remount ==
  /\ dropdown' = mounted(rerendered(dropdown, backend).file)
  /\ dropdown' # dropdown
  /\ UNCHANGED <<authForm, search, probe>>
  /\ UNCHANGED toastVars /\ UNCHANGED uploaderVars /\ UNCHANGED serverVars

\* handleAction with the action "share": updateFileUsers with the emails typed.
\* A rejected server action leaves the handler at its await: isLoading stays.
HandleActionShare ==
  \E o \in Oracles(1) :
    LET r == updateFileUsers(request("c1", o), dropdown.file["$id"], dropdown.emails, "/")
        loading == [dropdown EXCEPT !.isLoading = TRUE]
    IN /\ dropdown.isModalOpen /\ dropdown.action = "share"
       /\ room(1, ShareLimit)
       /\ served("handleAction", "c1",
                 [action |-> "share", emails |-> dropdown.emails], r)
       /\ dropdown' =
            IF r.result.kind = "return"
            THEN [closeAllModals(rerendered(loading, r.ctx.db)) EXCEPT !.isLoading = FALSE]
            ELSE loading
       /\ UNCHANGED <<authForm, search, probe>>
       /\ UNCHANGED toastVars /\ UNCHANGED uploaderVars

\* handleRemoveUser(email), from the remove button of a user the dialog lists
HandleRemoveUser ==
  \E o \in Oracles(1), i \in 1..Len(dropdown.file.users) :
    LET email == dropdown.file.users[i]
        sent == updatedEmails(dropdown, email)
        r == updateFileUsers(request("c1", o), dropdown.file["$id"], sent, "/")
    IN /\ dropdown.isModalOpen /\ dropdown.action = "share"
       /\ room(1, ShareLimit)
       /\ served("handleRemoveUser", "c1", [email |-> email, emails |-> sent],
                 [r EXCEPT !.info = [file |-> dropdown.file]])
       /\ dropdown' =
            IF r.result.kind = "return"
            THEN closeAllModals([rerendered(dropdown, r.ctx.db) EXCEPT !.emails = sent])
            ELSE dropdown
       /\ UNCHANGED <<authForm, search, probe>>
       /\ UNCHANGED toastVars /\ UNCHANGED uploaderVars

InitShare ==
  /\ InitToast /\ InitUploader
  /\ backend = ShareBackend
  /\ cookie = SignedInCookies
  /\ last = [op |-> "none", changed |-> TRUE]
  /\ dropdown = mounted(ShareBackend.files[1])
  /\ authForm = [isLoading |-> FALSE, errorMessage |-> "", accountId |-> Null]
  /\ search = [mounted |-> FALSE]
  /\ probe = [fn |-> "none"]

-----------------------------------------------------------------------------
\* AuthForm (the sign-in and sign-up pages), in the first browser

FormTypes == {"sign-in", "sign-up"}

\* no server action is awaited
noAwait == [kind |-> "none"]

\* the state of a form that has just been mounted: the three useState
\* values, the type of the page, and the outcome of the awaited server action
mountedForm(type) ==
  [type |-> type, isLoading |-> FALSE, errorMessage |-> "", accountId |-> Null,
   awaited |-> noAwait]

\* onSubmit up to its await: setIsLoading(true), setErrorMessage("")
onSubmitStart(f, outcome) ==
  [f EXCEPT !.isLoading = TRUE, !.errorMessage = "", !.awaited = outcome]

\* onSubmit after its await, with a catch that also clears accountId
onSubmitEndClearing(f) ==
  IF f.awaited.kind = "return"
  THEN [f EXCEPT !.accountId = f.awaited.value.accountId, !.isLoading = FALSE,
                 !.awaited = noAwait]
  ELSE [f EXCEPT !.errorMessage = "Failed to create account. Please try again.",
                 !.accountId = Null, !.isLoading = FALSE, !.awaited = noAwait]

\* onSubmit after its await: setAccountId(user.accountId), or the catch's
\* setErrorMessage; finally setIsLoading(false)
onSubmitEnd(f) ==
  IF f.awaited.kind = "return"
  THEN [f EXCEPT !.accountId = f.awaited.value.accountId, !.isLoading = FALSE,
                 !.awaited = noAwait]
  ELSE [f EXCEPT !.errorMessage = "Failed to create account. Please try again.",
                 !.isLoading = FALSE, !.awaited = noAwait]

\* {accountId && <OtpModal ... />}
otpModalShown(f) == truthy(f.accountId)

\* the server action that onSubmit calls for the type of the page
submitted(type, ctx, email) ==
  IF type = "sign-up" THEN createAccount(ctx, "Full Name", email)
  ELSE signInUser(ctx, email)

\* the form is submitted (its button is disabled while isLoading): the
\* server action of the page is called and answers
OnSubmit ==
  \E email \in Emails, o \in Oracles(3) :
    /\ ~authForm.isLoading
    /\ room(2, MaxIds)
    /\ served(IF authForm.type = "sign-up" THEN "createAccount" ELSE "signInUser",
              "c1", [email |-> email],
              submitted(authForm.type, request("c1", o), email))
    /\ authForm' = onSubmitStart(authForm, last'.result)
    /\ UNCHANGED toastVars
    /\ UNCHANGED uploaderVars
    /\ UNCHANGED <<dropdown, search, probe>>

\* the awaited server action has returned or thrown
OnSubmitSettled ==
  /\ authForm.awaited # noAwait
  /\ authForm' = onSubmitEnd(authForm)
  /\ UNCHANGED toastVars
  /\ UNCHANGED uploaderVars
  /\ UNCHANGED serverVars
  /\ UNCHANGED <<dropdown, search, probe>>

\* the footer link to the other page: its form is mounted afresh
FollowLink ==
  /\ authForm' = mountedForm(IF authForm.type = "sign-in" THEN "sign-up" ELSE "sign-in")
  /\ UNCHANGED toastVars
  /\ UNCHANGED uploaderVars
  /\ UNCHANGED serverVars
  /\ UNCHANGED <<dropdown, search, probe>>

InitAuthForm ==
  /\ InitToast /\ InitUploader /\ InitBackend
  /\ dropdown = [mounted |-> FALSE]
  /\ search = [mounted |-> FALSE]
  /\ probe = [fn |-> "none"]
  /\ authForm \in {mountedForm(type) : type \in FormTypes}

NextAuthForm == OnSubmit \/ OnSubmitSettled \/ FollowLink

SpecAuthForm == InitAuthForm /\ [][NextAuthForm]_vars

-----------------------------------------------------------------------------
\* components/Search.tsx, in the header of the first browser's pages

\* how many times the debounced query changes
MaxSearches == 3

\* what is typed into the search input
SearchTexts == {<<>>, <<"a">>, <<"b">>}

\* the backend once the first user has uploaded two files
SearchBackend ==
  uploadFile([db |-> ShareBackend, log |-> <<>>,
              o |-> [answers |-> [k \in 1..3 |-> TRUE], otp |-> "111111"],
              console |-> <<>>, revalidated |-> <<>>, jar |-> SignedInCookies["c1"]],
             [name |-> NameB, size |-> 2048], "2", "1", "/").ctx.db

\* no router.push awaits its navigation
noPush == [to |-> Null]

\* the useState initial values, the URL without a query, nothing in flight.
\* changes counts the changes of debouncedQuery, shownFor is the change whose
\* outcome was set last, latestThrew and clicked tell what happened to the
\* latest change.
mountedSearch ==
  [query |-> <<>>, debouncedQuery |-> <<>>, results |-> <<>>, open |-> FALSE,
   searchQuery |-> <<>>, pushed |-> noPush, pending |-> {},
   changes |-> 0, shownFor |-> 0, latestThrew |-> FALSE, clicked |-> FALSE]

\* fetchFiles with an empty debouncedQuery: setResults([]), setOpen(false),
\* router.push of the path without its query
fetchFilesEmpty(v) ==
  [v EXCEPT !.results = <<>>, !.open = FALSE, !.pushed = [to |-> <<>>],
            !.shownFor = v.changes]

\* fetchFiles up to its await: the getFiles call is in flight
fetchFilesAwait(v, outcome) ==
  [v EXCEPT !.pending = @ \cup {[n |-> v.changes, searchText |-> v.debouncedQuery,
                                  outcome |-> outcome]},
            !.latestThrew = (outcome.kind = "throw")]

\* fetchFiles after its await: setResults(files.documents), setOpen(true)
fetchFilesResume(v, r) ==
  [v EXCEPT !.results = r.outcome.value.documents, !.open = TRUE,
            !.pending = @ \ {r}, !.shownFor = r.n]

\* onChange of the input: setQuery(e.target.value)
OnChangeQuery ==
  \E value \in SearchTexts :
    /\ value # search.query
    /\ search' = [search EXCEPT !.query = value]
    /\ UNCHANGED toastVars
    /\ UNCHANGED uploaderVars
    /\ UNCHANGED serverVars
    /\ UNCHANGED <<dropdown, authForm, probe>>

\* useDebounce(query, 300): the input has been still for 300 ms and
\* debouncedQuery takes its value; the effect on [debouncedQuery] runs
\* fetchFiles
DebouncedQueryChanged ==
  \E o \in Oracles(3) :
    /\ search.debouncedQuery # search.query
    /\ search.changes < MaxSearches
    /\ IF search.query = <<>>
       THEN /\ search' = fetchFilesEmpty(
                           [search EXCEPT !.debouncedQuery = search.query,
                                          !.changes = @ + 1, !.clicked = FALSE,
                                          !.latestThrew = FALSE])
            /\ UNCHANGED serverVars
       ELSE /\ served("getFiles", "c1",
                      [types |-> <<>>, searchText |-> search.query,
                       sort |-> undefinedSort, limit |-> 0],
                      getFiles(request("c1", o), <<>>, search.query, undefinedSort, 0))
            /\ search' = fetchFilesAwait(
                           [search EXCEPT !.debouncedQuery = search.query,
                                          !.changes = @ + 1, !.clicked = FALSE],
                           last'.result)
    /\ UNCHANGED toastVars
    /\ UNCHANGED uploaderVars
    /\ UNCHANGED <<dropdown, authForm, probe>>

\* a getFiles call returns, whichever of those in flight
GetFilesResolved ==
  \E r \in search.pending :
    /\ r.outcome.kind = "return"
    /\ search' = fetchFilesResume(search, r)
    /\ UNCHANGED toastVars
    /\ UNCHANGED uploaderVars
    /\ UNCHANGED serverVars
    /\ UNCHANGED <<dropdown, authForm, probe>>

\* a getFiles call throws: fetchFiles ends there, nothing catches
GetFilesRejected ==
  \E r \in search.pending :
    /\ r.outcome.kind = "throw"
    /\ search' = [search EXCEPT !.pending = @ \ {r}]
    /\ UNCHANGED toastVars
    /\ UNCHANGED uploaderVars
    /\ UNCHANGED serverVars
    /\ UNCHANGED <<dropdown, authForm, probe>>

\* handleClickItem(file): the dropdown closes and the router goes to the
\* page of the file's type with ?query=<query>
HandleClickItem ==
  \E i \in 1..Len(search.results) :
    /\ search.open
    /\ search' = [search EXCEPT !.open = FALSE, !.results = <<>>,
                                !.pushed = [to |-> search.query], !.clicked = TRUE]
    /\ UNCHANGED toastVars
    /\ UNCHANGED uploaderVars
    /\ UNCHANGED serverVars
    /\ UNCHANGED <<dropdown, authForm, probe>>

\* the navigation of a router.push ends: searchParams change, and the effect
\* on [searchQuery] empties the input when the URL has no query any more
Navigated ==
  /\ search.pushed # noPush
  /\ search' = [search EXCEPT
                  !.searchQuery = search.pushed.to,
                  !.pushed = noPush,
                  !.query = IF search.pushed.to # search.searchQuery
                               /\ search.pushed.to = <<>>
                            THEN <<>> ELSE @]
  /\ UNCHANGED toastVars
  /\ UNCHANGED uploaderVars
  /\ UNCHANGED serverVars
  /\ UNCHANGED <<dropdown, authForm, probe>>

InitSearch ==
  /\ InitToast /\ InitUploader
  /\ backend = SearchBackend
  /\ cookie = SignedInCookies
  /\ last = [op |-> "none", changed |-> TRUE]
  /\ dropdown = [mounted |-> FALSE]
  /\ authForm = [isLoading |-> FALSE, errorMessage |-> "", accountId |-> Null]
  /\ search = mountedSearch
  /\ probe = [fn |-> "none"]

NextSearch ==
  \/ OnChangeQuery \/ DebouncedQueryChanged \/ GetFilesResolved \/ GetFilesRejected
  \/ HandleClickItem \/ Navigated

SpecSearch == InitSearch /\ [][NextSearch]_vars

-----------------------------------------------------------------------------
\* Calls of the utility functions of lib/utils.ts and of createQueries, each
\* recorded in `probe` with its arguments and its result

\* how many characters the stem of a probed file name has
MaxStem == 1

probed(fn, args, result) == [fn |-> fn, args |-> args, result |-> result]

\* a utility call changes nothing else
restVars ==
  <<memoryState, toastTimeouts, timers, count, lastAction,
    files, inflight, lastDrop, uploadCalls, dropToasts,
    backend, cookie, last, dropdown, authForm, search>>

\* the extensions of the four lists
ListedExtensions ==
  documentExtensions \cup imageExtensions \cup videoExtensions \cup audioExtensions

\* String.prototype.toUpperCase, to write extensions in capitals
toUpperChar(c) ==
  IF CharCode(c) >= CharCode("a") /\ CharCode(c) <= CharCode("z")
  THEN Chars[CharCode(c) - (CharCode("a") - CharCode("A"))]
  ELSE c

toUpperCase(s) == [i \in 1..Len(s) |-> toUpperChar(s[i])]

\* what follows the last dot in the probed names: nothing, a listed extension
\* in small letters, one of each list in capitals, an unlisted one
ExtensionArgs ==
  ListedExtensions
    \cup {toUpperCase(e) : e \in {<<"p", "d", "f">>, <<"j", "p", "g">>,
                                   <<"m", "p", "4">>, <<"m", "p", "3">>}}
    \cup {<<>>, <<"z", "z">>, <<"P", "n", "g">>, <<"p", "d">>, <<"p", "d", "f", "x">>}

\* the part of a name before its last dot
StemArgs == SeqsUpTo({"a", "."}, MaxStem)

\* file names: with a dot (stem.extension) and without any
FileNameArgs ==
  {stem \o <<".">> \o e : stem \in StemArgs, e \in ExtensionArgs}
    \cup {e \in ExtensionArgs : TRUE}
    \cup {<<"a">>, <<"R", "E", "A", "D", "M", "E">>}

GetFileType ==
  \E fileName \in FileNameArgs :
    /\ probe' = probed("getFileType", fileName, getFileType(fileName))
    /\ UNCHANGED restVars

\* lib/utils.ts convertFileSize and calculatePercentage.  A byte count is a
\* number(n) = [hi, lo], n = hi * 2^20 + lo.  A quotient by a power of two is
\* exact in JavaScript, and x.toFixed(d) is the multiple of 10^-d nearest to x,
\* the larger one on a tie: floor(x * 10^d + 1/2).  The string that toFixed
\* returns is held as that count of 10^-d.

\* 10^d for the digits toFixed is asked for
tenTo(d) == IF d = 0 THEN 1 ELSE IF d = 1 THEN 10 ELSE 100

\* sizeInBytes < k for a small k
lessThan(x, k) == x.hi = 0 /\ x.lo < k

\* (sizeInBytes / 1024).toFixed(d), for sizeInBytes < 1024 * 1024
sizeInKB(x, d) ==
  [shown |-> (x.lo * tenTo(d) + 512) \div 1024, digits |-> d, unit |-> "KB"]

\* the MB branch with the label of the KB branch
sizeInMBLabelledKB(x, d) ==
  [shown |-> x.hi * tenTo(d) + (x.lo * tenTo(d) + Mega \div 2) \div Mega,
   digits |-> d, unit |-> "KB"]

\* (sizeInBytes / (1024 * 1024)).toFixed(d)
sizeInMB(x, d) ==
  [shown |-> x.hi * tenTo(d) + (x.lo * tenTo(d) + Mega \div 2) \div Mega,
   digits |-> d, unit |-> "MB"]

\* (sizeInBytes / (1024 * 1024 * 1024)).toFixed(d): with hi = 1024 q + r,
\* floor((1024 q + r + lo / 2^20) * 10^d / 1024 + 1/2)
sizeInGB(x, d) ==
  [shown |-> (x.hi \div 1024) * tenTo(d)
               + ((x.hi % 1024) * tenTo(d) + 512 + (x.lo * tenTo(d)) \div Mega) \div 1024,
   digits |-> d, unit |-> "GB"]

\* sizeInBytes < 1024, with the limit taken as Bytes too
isBytesInclusive(x) == lessThan(x, 1025)

\* sizeInBytes < 1024
isBytes(x) == lessThan(x, 1024)

\* convertFileSize(sizeInBytes, digits); digits 0 stands for a missing one
convertFileSize(sizeInBytes, digits) ==
  LET d == IF digits # 0 THEN digits ELSE 1
  IN IF isBytes(sizeInBytes)
     THEN [shown |-> sizeInBytes.lo, digits |-> 0, unit |-> "Bytes"]
     ELSE IF sizeInBytes.hi < 1 THEN sizeInKB(sizeInBytes, d)
     ELSE IF sizeInBytes.hi < 1024 THEN sizeInMB(sizeInBytes, d)
     ELSE sizeInGB(sizeInBytes, d)

\* calculatePercentage(sizeInBytes): Number(((sizeInBytes / 2^31) * 100).toFixed(2)),
\* held as the count of hundredths, floor(sizeInBytes * 10^4 / 2^31 + 1/2) with
\* sizeInBytes * 10^4 / 2^31 = (hi * 10^4 + lo * 625 / 2^16) / 2^11
calculatePercentage(sizeInBytes) ==
  (sizeInBytes.hi * 10000 + 1024 + (sizeInBytes.lo * 625) \div 65536) \div 2048

\* byte counts around the unit limits, the rounding limits and the quota
SizeArgs ==
  {number(n) : n \in {0, 1, 1023, 1024, 1025, 1075, 1076, 1280, 1536, 107374,
                      1048524, 1048575}}
    \cup {[hi |-> h, lo |-> l] :
            h \in {1, 2, 1023, 1024, 1025, 1536, 2047, 2048, 3072},
            l \in {0, 1, 52428, 52429, 524288, 1048575}}

ConvertFileSize ==
  \E sizeInBytes \in SizeArgs, digits \in {0, 2} :
    /\ probe' = probed("convertFileSize",
                       [sizeInBytes |-> sizeInBytes, digits |-> digits],
                       convertFileSize(sizeInBytes, digits))
    /\ UNCHANGED restVars

CalculatePercentage ==
  \E sizeInBytes \in SizeArgs :
    /\ probe' = probed("calculatePercentage", [sizeInBytes |-> sizeInBytes],
                       calculatePercentage(sizeInBytes))
    /\ UNCHANGED restVars

\* the values of sortTypes; a key is held as its pieces and its '-'
sortTypes ==
  {<<"$createdAt", "-", "desc">>, <<"$createdAt", "-", "asc">>,
   <<"name", "-", "asc">>, <<"name", "-", "desc">>,
   <<"size", "-", "desc">>, <<"size", "-", "asc">>}

\* the sort keys asked for: the six of sortTypes, the empty one, and two that
\* the Sort menu does not offer
SortKeyArgs == sortTypes \cup {<<>>, <<"name">>, <<"size", "-", "up">>}

\* a request of the first browser on the files pages that the backend answers
filesRequest ==
  [db |-> SignedInBackend, log |-> <<>>,
   o |-> [answers |-> [k \in 1..3 |-> TRUE], otp |-> CHOOSE otp \in Otps : TRUE],
   console |-> <<>>, revalidated |-> <<>>, jar |-> SignedInCookies["c1"]]

CreateQueries ==
  \E types \in TypeArgs, searchText \in SearchArgs, sort \in SortKeyArgs,
     limit \in LimitArgs :
    /\ probe' = probed("createQueries",
                       [types |-> types, searchText |-> searchText, sort |-> sort,
                        limit |-> limit],
                       createQueries(SignedInBackend.users[1], types, searchText,
                                     sort, limit))
    /\ UNCHANGED restVars

\* the queries getFiles lists the files with
GetFilesQueries ==
  \E types \in TypeArgs, sort \in SortKeyArgs \cup {undefinedSort} :
    /\ probe' = probed("getFiles", [types |-> types, sort |-> sort],
                       getFiles(filesRequest, types, <<>>, sort, 0).info.queries)
    /\ UNCHANGED restVars

-----------------------------------------------------------------------------
\* Specifications

Init == InitToast /\ InitUploader /\ InitBackend /\ InitComponents

NextToast == ToastCall \/ UpdateCall \/ DismissCall \/ TimerFire \/ RemoveDispatch

SpecToast == Init /\ [][NextToast]_vars

\* setTimeout: a timer that stays pending fires once its delay has passed
timerFired(toastId) == TimerFire /\ timers'[toastId] < timers[toastId]

SpecToastTimers ==
  Init /\ [][NextToast]_vars /\ \A toastId \in TimerIds : WF_vars(timerFired(toastId))

NextUploader == Drop \/ UploadResolved \/ UploadRejected \/ handleRemoveFile

SpecUploader == Init /\ [][NextUploader]_vars

NextAuth == CreateAccount \/ VerifySecret \/ SignInUser \/ SignOutUser \/ RenderLayout

SpecAuth == Init /\ [][NextAuth]_vars

NextFiles ==
  \/ UploadFile \/ GetFiles \/ RenameFile \/ UpdateFileUsers \/ DeleteFile
  \/ GetTotalSpaceUsed

InitSignedIn == InitToast /\ InitUploader /\ InitFiles /\ InitComponents

SpecFiles == InitSignedIn /\ [][NextFiles]_vars

NextShare ==
  \/ ToggleDropdown \/ SelectShare \/ OnInputChange \/ CancelModal \/ Remount
  \/ HandleActionShare \/ HandleRemoveUser

SpecShare == InitShare /\ [][NextShare]_vars

NextUsage == GetTotalSpaceUsed

SpecUsage == InitUsage /\ [][NextUsage]_vars

NextUtils ==
  \/ GetFileType \/ ConvertFileSize \/ CalculatePercentage
  \/ CreateQueries \/ GetFilesQueries

SpecUtils == Init /\ [][NextUtils]_vars

-----------------------------------------------------------------------------
\* C3: in every state reached by dispatching ADD_TOAST, UPDATE_TOAST,
\* DISMISS_TOAST and REMOVE_TOAST actions from the empty store, the toasts
\* list holds at most TOAST_LIMIT = 1 toast, and right after an ADD_TOAST the
\* list holds exactly the toast just added.
C3_ToastCap ==
  /\ Len(memoryState.toasts) <= TOAST_LIMIT
  /\ TOAST_LIMIT = 1
  /\ lastAction.type = "ADD_TOAST" => memoryState.toasts = <<lastAction.toast>>

\* a second toast has just been added over an earlier one that was still listed
C3_Witness ==
  /\ lastAction.type = "ADD_TOAST"
  /\ lastAction.toast.id = "2"
  /\ count = 2
  /\ memoryState.toasts = <<lastAction.toast>>

\* C10: a dropped file larger than MAX_FILE_SIZE is never passed to
\* uploadFile, is no longer in the pending list and has an error toast raised
\* for it; a dropped file of size at most MAX_FILE_SIZE is passed to uploadFile
\* exactly once in the drop.
C10_UploadSizeLimit ==
  \A i \in 1..Len(lastDrop) :
    LET f == lastDrop[i]
        callsFor == {k \in 1..Len(uploadCalls) : uploadCalls[k].idx = i}
        toastsFor == {k \in 1..Len(dropToasts) : dropToasts[k].idx = i}
    IN IF f.size > MAX_FILE_SIZE
       THEN /\ callsFor = {}
            /\ \A k \in 1..Len(uploadCalls) : uploadCalls[k].file # f
            /\ \A k \in 1..Len(files) : files[k].name # f.name
            /\ Cardinality(toastsFor) = 1
            /\ \A k \in toastsFor :
                 /\ dropToasts[k].toast.className = "error-toast"
                 /\ dropToasts[k].toast.description = f.name
       ELSE /\ Cardinality(callsFor) = 1
            /\ \A k \in callsFor : uploadCalls[k].file = f
            /\ toastsFor = {}

\* a drop of one file over the limit and one file exactly at the limit
C10_Witness ==
  /\ Len(lastDrop) = 2
  /\ lastDrop[1].size = MAX_FILE_SIZE + 1
  /\ lastDrop[2].size = MAX_FILE_SIZE
  /\ lastDrop[1].name # lastDrop[2].name
  /\ Len(uploadCalls) = 1
  /\ Len(files) = 1
  /\ memoryState.toasts # <<>>

-----------------------------------------------------------------------------
\* Shorthands of the claims

\* the places of the log where the call was made
callsOf(log, call) == {k \in 1..Len(log) : log[k].call = call}

\* the user documents with this email
usersWithEmail(db, email) == {i \in 1..Len(db.users) : db.users[i].email = email}

\* C1: when uploadFile has stored the blob and the creation of the metadata
\* document then fails, uploadFile asks storage to delete that same blob and
\* ends with an error instead of a file document; when that delete succeeds
\* the bucket holds no blob of the upload.
C1_UploadRollback ==
  (last.op = "uploadFile" /\ Len(last.log) >= 2 /\ last.log[1].ok /\ ~last.log[2].ok) =>
    /\ last.log[1].call = "storage.createFile"
    /\ last.log[2].call = "databases.createDocument"
    /\ last.log[2].arg.data.bucketFileId = last.log[1].arg
    /\ Len(last.log) = 3
    /\ last.log[3].call = "storage.deleteFile"
    /\ last.log[3].arg = last.log[1].arg
    /\ last.result.kind = "throw"
    /\ \A i \in 1..Len(backend.files) :
         backend.files[i].bucketFileId # last.log[1].arg
    /\ last.log[3].ok => \A b \in backend.bucket : b.id # last.log[1].arg

\* an upload whose metadata write failed and whose rollback went through
C1_Witness ==
  /\ last.op = "uploadFile"
  /\ Len(last.log) = 3
  /\ last.log[1].ok /\ ~last.log[2].ok /\ last.log[3].ok
  /\ last.result.kind = "throw"
  /\ \A b \in backend.bucket : b.id # last.log[1].arg

\* C2: whatever types, searchText, sort and limit are, when getFiles finds a
\* current user it sends one file query, which holds the condition (owner =
\* the user's id OR users contains the user's email), and every file returned
\* is owned by that user or shared with their email; when there is no current
\* user it sends no file query and fails.
C2_GetFilesVisibility ==
  last.op = "getFiles" =>
    LET u == last.info.currentUser
        fileLists == {k \in callsOf(last.log, "databases.listDocuments") :
                        last.log[k].arg.collection = "files"}
    IN IF isDoc(u)
       THEN /\ Cardinality(fileLists) = 1
            /\ \E s \in backend.sessions :
                 s.secret = cookie[last.client].value /\ s.userId = u.accountId
            /\ \A k \in fileLists :
                 \E j \in 1..Len(last.log[k].arg.queries) :
                   last.log[k].arg.queries[j] =
                     [method |-> "or",
                      values |-> <<[method |-> "equal", attribute |-> "owner",
                                    values |-> <<u["$id"]>>],
                                   [method |-> "contains", attribute |-> "users",
                                    values |-> <<u.email>>]>>]
            /\ last.result.kind = "return" =>
                 \A i \in 1..Len(last.result.value.documents) :
                   LET d == last.result.value.documents[i]
                   IN \/ d.owner = u["$id"]
                      \/ \E j \in 1..Len(d.users) : d.users[j] = u.email
       ELSE /\ fileLists = {}
            /\ last.result.kind = "throw"

\* getFiles returned a file that another user owns and has shared with the
\* current user
C2_Witness ==
  /\ last.op = "getFiles"
  /\ last.result.kind = "return"
  /\ \E i \in 1..Len(last.result.value.documents) :
       LET d == last.result.value.documents[i]
       IN /\ d.owner # last.info.currentUser["$id"]
          /\ \E j \in 1..Len(d.users) : d.users[j] = last.info.currentUser.email

\* C4: the layout of the authenticated pages renders its children exactly
\* when getCurrentUser yields a user document, the one whose accountId is the
\* account of the session; without a session cookie, on a backend error
\* during the lookup and when no user document matches, getCurrentUser does
\* not throw and the layout redirects to /sign-in.
C4_AuthGate ==
  last.op = "Layout" =>
    /\ last.result.kind \in {"render", "redirect"}
    /\ last.result.kind = "render" <=> isDoc(last.info.currentUser)
    /\ last.result.kind = "redirect" => last.result.to = "/sign-in"
    /\ isDoc(last.info.currentUser) =>
         /\ cookie[last.client] # NoCookie
         /\ \E i \in 1..Len(backend.users) : backend.users[i] = last.info.currentUser
         /\ \E s \in backend.sessions :
              /\ s.secret = cookie[last.client].value
              /\ s.userId = last.info.currentUser.accountId
    /\ cookie[last.client] = NoCookie =>
         last.log = <<>> /\ last.result = [kind |-> "redirect", to |-> "/sign-in"]
    /\ (\E k \in 1..Len(last.log) : ~last.log[k].ok) =>
         last.result = [kind |-> "redirect", to |-> "/sign-in"]
    /\ (/\ cookie[last.client] # NoCookie
        /\ \A s \in backend.sessions : \A i \in 1..Len(backend.users) :
             s.secret = cookie[last.client].value =>
               backend.users[i].accountId # s.userId) =>
         last.result = [kind |-> "redirect", to |-> "/sign-in"]

\* a signed-in browser whose account has no user document: the lookup went
\* through, found nothing, and the layout redirected
C4_Witness ==
  /\ last.op = "Layout"
  /\ Len(last.log) = 2 /\ last.log[1].ok /\ last.log[2].ok
  /\ last.info.currentUser = nullDoc
  /\ last.result = [kind |-> "redirect", to |-> "/sign-in"]

\* C5: verifySecret sets the 'appwrite-session' cookie (httpOnly, sameSite
\* strict, secure, path '/') to the secret of the session that the backend
\* created for the given accountId and OTP; when the session creation fails it
\* leaves every cookie as it was and rethrows; and a session cookie is set or
\* changed by nothing but a successful verifySecret of that browser.
C5_SessionCookie ==
  [][/\ last'.op = "verifySecret" =>
          /\ Len(last'.log) = 1
          /\ last'.log[1].call = "account.createSession"
          /\ last'.log[1].arg = [userId |-> last'.args.accountId,
                                 secret |-> last'.args.password]
          /\ \A c \in Clients \ {last'.client} : cookie'[c] = cookie[c]
          /\ IF last'.log[1].ok
             THEN /\ last'.log[1].arg \in backend.tokens
                  /\ last'.result.kind = "return"
                  /\ \E s \in backend'.sessions \ backend.sessions :
                       /\ s.userId = last'.args.accountId
                       /\ last'.result.value = [sessionId |-> s.id]
                       /\ cookie'[last'.client] =
                            [value |-> s.secret, path |-> "/", httpOnly |-> TRUE,
                             sameSite |-> "strict", secure |-> TRUE]
             ELSE /\ cookie' = cookie
                  /\ backend'.sessions = backend.sessions
                  /\ last'.result.kind = "throw"
     /\ \A c \in Clients :
          (cookie'[c] # cookie[c] /\ cookie'[c] # NoCookie) =>
            /\ last'.op = "verifySecret"
            /\ last'.client = c
            /\ last'.log[1].ok]_vars

\* an OTP was verified and the browser holds the cookie of the new session
C5_Witness ==
  /\ last.op = "verifySecret"
  /\ last.result.kind = "return"
  /\ cookie[last.client] # NoCookie
  /\ cookie[last.client].value = last.info.session.secret
  /\ cookie[last.client].httpOnly

\* C6: createAccount adds a user document only when its lookup found no user
\* document with the email and only after the OTP was sent; when sending the
\* OTP fails it adds none; a call for an email that already has a user
\* document adds none.
C6_CreateAccount ==
  [][last'.op = "createAccount" =>
       LET email == last'.args.email
           log == last'.log
           added == backend'.users # backend.users
       IN /\ added =>
               /\ usersWithEmail(backend, email) = {}
               /\ Len(log) = 3
               /\ log[1].call = "databases.listDocuments" /\ log[1].ok
               /\ log[2].call = "account.createEmailToken" /\ log[2].ok
               /\ log[3].call = "databases.createDocument" /\ log[3].ok
               /\ Len(backend'.users) = Len(backend.users) + 1
               /\ SubSeq(backend'.users, 1, Len(backend.users)) = backend.users
               /\ backend'.users[Len(backend'.users)].email = email
               /\ [id |-> backend'.users[Len(backend'.users)].accountId,
                   email |-> email] \in backend'.accounts
          /\ (\E k \in callsOf(log, "account.createEmailToken") : ~log[k].ok) => ~added
          /\ callsOf(log, "account.createEmailToken") = {} => ~added
          /\ usersWithEmail(backend, email) # {} => ~added]_vars

\* a createAccount call for an email that has a user document: the OTP was
\* sent, the account id returned and no document added
C6_Witness ==
  /\ last.op = "createAccount"
  /\ last.result.kind = "return"
  /\ isDoc(last.info.existingUser)
  /\ Len(last.log) = 2
  /\ Cardinality(usersWithEmail(backend, last.args.email)) = 1

\* whether the request sent an OTP and returned the stored accountId
signInSentAndReturned ==
  /\ \E k \in callsOf(last.log, "account.createEmailToken") : last.log[k].ok
  /\ last.result.kind = "return"
  /\ \E i \in usersWithEmail(backend, last.args.email) :
       last.result.value = [accountId |-> backend.users[i].accountId]

\* C7 as claimed: signInUser sends an OTP and returns the stored accountId if
\* and only if a user document with the email exists; when none exists it
\* sends no OTP and returns {accountId: null, error: "User not found"}.
C7_Original ==
  last.op = "signInUser" =>
    /\ signInSentAndReturned <=> usersWithEmail(backend, last.args.email) # {}
    /\ usersWithEmail(backend, last.args.email) = {} =>
         /\ callsOf(last.log, "account.createEmailToken") = {}
         /\ last.result = [kind |-> "return",
                           value |-> [accountId |-> Null, error |-> "User not found"]]

\* C7, amended: signInUser sends an OTP only if a user document with the
\* email exists.  When its backend calls succeed, it sends an OTP and returns
\* the stored accountId if and only if such a document exists, and returns
\* {accountId: null, error: "User not found"} without sending when none
\* exists.  When the lookup or the sending fails it rethrows the error.
C7_SignInUser ==
  last.op = "signInUser" =>
    LET exists == usersWithEmail(backend, last.args.email) # {}
        answered == \A k \in 1..Len(last.log) : last.log[k].ok
    IN /\ signInSentAndReturned => exists
       /\ ~exists => callsOf(last.log, "account.createEmailToken") = {}
       /\ (answered /\ exists) => signInSentAndReturned
       /\ (answered /\ ~exists) =>
            last.result = [kind |-> "return",
                           value |-> [accountId |-> Null, error |-> "User not found"]]
       /\ ~answered => last.result = [kind |-> "throw", error |-> "AppwriteException"]
       /\ last.log[1].call = "databases.listDocuments"

\* a sign-in for an email without a user document: answered, not thrown
C7_Witness ==
  /\ last.op = "signInUser"
  /\ usersWithEmail(backend, last.args.email) = {}
  /\ Len(last.log) = 1 /\ last.log[1].ok
  /\ last.result.kind = "return"
  /\ last.result.value.accountId = Null

\* C8 as claimed: every call of signOutUser ends in a redirect to /sign-in,
\* also when deleting the session fails; when the deletion succeeds the
\* session and the cookie are gone.
C8_SignOutRedirects ==
  last.op = "signOutUser" =>
    /\ last.result = [kind |-> "redirect", to |-> "/sign-in"]
    /\ (\E k \in 1..Len(last.log) : last.log[k].ok) =>
         /\ cookie[last.client] = NoCookie
         /\ \A s \in backend.sessions : s.secret # last.log[1].arg

\* C9: deleteFile deletes the metadata document first and the blob only after
\* the document deletion succeeded; when the document deletion fails the
\* bucket (and the collection) stay as they were; {status: "success"} is
\* returned exactly when both deletions succeeded.
C9_DeleteOrder ==
  [][last'.op = "deleteFile" =>
       LET log == last'.log
           a == last'.args
       IN /\ Len(log) >= 1
          /\ log[1].call = "databases.deleteDocument"
          /\ log[1].arg = [collection |-> "files", id |-> a.fileId]
          /\ \A k \in callsOf(log, "storage.deleteFile") :
               k = 2 /\ log[1].ok /\ log[k].arg = a.bucketFileId
          /\ ~log[1].ok => (Len(log) = 1 /\ backend' = backend)
          /\ log[1].ok =>
               /\ Len(log) = 2
               /\ indexOf(backend'.files, a.fileId) = 0
               /\ indexOf(backend.files, a.fileId) # 0
          /\ last'.result = [kind |-> "return", value |-> [status |-> "success"]] <=>
               (Len(log) = 2 /\ log[1].ok /\ log[2].ok)
          /\ last'.result.kind = "return" =>
               /\ \A b \in backend'.bucket : b.id # a.bucketFileId
               /\ \E b \in backend.bucket : b.id = a.bucketFileId
          /\ last'.result.kind # "return" => last'.result.kind = "throw"
          /\ (Len(log) = 2 /\ ~log[2].ok) => backend'.bucket = backend.bucket]_vars

\* the document deletion of a listed file failed: an error, and the blob is
\* still in the bucket
C9_Witness ==
  /\ last.op = "deleteFile"
  /\ last.args.fileId # "0"
  /\ Len(last.log) = 1 /\ ~last.log[1].ok
  /\ last.result.kind = "throw"
  /\ \E b \in backend.bucket : b.id = last.args.bucketFileId
  /\ indexOf(backend.files, last.args.fileId) # 0

\* the users list stored for the file of the dropdown
storedUsers == backend.files[indexOf(backend.files, dropdown.file["$id"])].users

\* C11 as claimed: when handleRemoveUser(email) succeeds on a file shared with
\* the users U, the users list stored for the file is U without that email,
\* so every other user of U still has access.
C11_RemoveSharedUser ==
  (last.op = "handleRemoveUser" /\ last.result.kind = "return") =>
    LET U == last.info.file.users
        keep(e) == e # last.args.email
    IN /\ storedUsers = SelectSeq(U, keep)
       /\ \A i \in 1..Len(U) :
            U[i] # last.args.email =>
              \E j \in 1..Len(storedUsers) : storedUsers[j] = U[i]

\* what the code does: the stored list becomes the typed emails without the
\* removed one, whatever the file was shared with
C11_RemoveWritesTypedEmails ==
  (last.op = "handleRemoveUser" /\ last.result.kind = "return") =>
    LET keep(e) == e # last.args.email
    IN /\ storedUsers = last.args.emails
       /\ \E typed \in TypedEmails \cup {<<>>} : last.args.emails = SelectSeq(typed, keep)

\* the failing case: the file was shared with two users, the dialog was opened
\* on a fresh page, one user was removed and the other lost access too
C11_BothUsersRemoved ==
  /\ last.op = "handleRemoveUser"
  /\ last.result.kind = "return"
  /\ last.info.file.users = <<"e2@x.io", "e3@x.io">>
  /\ last.args.email = "e2@x.io"
  /\ storedUsers = <<>>

\* the sizes of the documents whose type is in T, added up from the end
RECURSIVE sizeSum(_, _)
sizeSum(docs, T) ==
  IF docs = <<>> THEN 0
  ELSE sizeSum(SubSeq(docs, 1, Len(docs) - 1), T)
         + (IF docs[Len(docs)].type \in T THEN docs[Len(docs)].size ELSE 0)

\* the greatest $updatedAt among the documents of type t, <<>> without any
latestOf(docs, t) ==
  LET dates == {docs[i]["$updatedAt"] : i \in {j \in 1..Len(docs) : docs[j].type = t}}
  IN IF dates = {} THEN <<>> ELSE <<CHOOSE d \in dates : \A e \in dates : e <= d>>

\* C12: for the file documents the backend returns for the current owner,
\* getTotalSpaceUsed returns used = the sum of all their sizes = the sum of the
\* five per-type sizes; each per-type size is the sum over the files of the
\* type and each per-type latestDate the greatest $updatedAt among them
\* (empty without any); all is 2 * 1024^3 (2048 * 2^20).
C12_UsageAggregation ==
  (last.op = "getTotalSpaceUsed" /\ last.result.kind = "return") =>
    LET docs == last.info.files.documents
        v == last.result.value
        mine(d) == d.owner = last.info.currentUser["$id"]
    IN /\ docs = SelectSeq(backend.files, mine)
       /\ v.used = sizeSum(docs, {"document", "image", "video", "audio", "other"})
       /\ v.used = v.image.size + v.document.size + v.video.size + v.audio.size
                     + v.other.size
       /\ \A t \in {"document", "image", "video", "audio", "other"} :
            /\ v[t].size = sizeSum(docs, {t})
            /\ v[t].latestDate = latestOf(docs, t)
       /\ v.all = [hi |-> 2048, lo |-> 0]
       /\ DOMAIN v = {"document", "image", "video", "audio", "other", "used", "all"}

\* two files of one type, the first updated after the second, and no file of
\* another type
C12_Witness ==
  /\ last.op = "getTotalSpaceUsed"
  /\ last.result.kind = "return"
  /\ Len(last.info.files.documents) = 2
  /\ last.info.files.documents[1].type = "video"
  /\ last.info.files.documents[2].type = "video"
  /\ last.info.files.documents[1]["$updatedAt"] > last.info.files.documents[2]["$updatedAt"]
  /\ last.result.value.video.latestDate = <<last.info.files.documents[1]["$updatedAt"]>>
  /\ last.result.value.used = 4024
  /\ last.result.value.audio = [size |-> 0, latestDate |-> <<>>]

\* the six file actions
FileActions ==
  {"uploadFile", "getFiles", "renameFile", "updateFileUsers", "deleteFile",
   "getTotalSpaceUsed"}

\* the calls of the latest request that the backend rejected
failedCalls == {k \in 1..Len(last.log) : ~last.log[k].ok}

\* the rejected calls that getCurrentUser made: the lookup of the session's
\* account and of its user document
failedLookups ==
  {k \in failedCalls :
     \/ last.log[k].call = "account.get"
     \/ /\ last.log[k].call = "databases.listDocuments"
        /\ last.log[k].arg.collection = "users"}

\* no call of the request is a second issue of a rejected one
noReissue ==
  \A k \in failedCalls : \A j \in 1..Len(last.log) :
    j # k => ~(last.log[j].call = last.log[k].call /\ last.log[j].arg = last.log[k].arg)

\* C13 as claimed: when a backend call inside a file action fails, the action
\* logs and rethrows the error of the backend to its caller; it returns no
\* success value and does not issue the failed call again.
C13_Original ==
  (last.op \in FileActions /\ failedCalls # {}) =>
    /\ last.console # <<>>
    /\ last.result = [kind |-> "throw", error |-> "AppwriteException"]
    /\ noReissue

\* C13, amended: when a backend call inside a file action fails, the action
\* logs and throws to its caller, never returning a success value and never
\* issuing the failed call again.  The error thrown is the backend's, except
\* when the failed call is the lookup of the current user in getFiles or
\* getTotalSpaceUsed: getCurrentUser logs and swallows that error, and the
\* action throws "User not found" / "User is not authenticated." instead.
C13_ErrorPropagation ==
  (last.op \in FileActions /\ failedCalls # {}) =>
    /\ last.console # <<>>
    /\ last.result.kind = "throw"
    /\ noReissue
    /\ last.result.error =
         IF failedLookups = {} THEN "AppwriteException"
         ELSE IF last.op = "getFiles" THEN "User not found"
         ELSE "User is not authenticated."
    /\ failedLookups # {} => last.op \in {"getFiles", "getTotalSpaceUsed"}
    /\ last.revalidated = <<>>

\* the users of a listed file could not be written: the error of the backend
\* reached the caller
C13_Witness ==
  /\ last.op = "updateFileUsers"
  /\ Len(last.log) = 1 /\ ~last.log[1].ok
  /\ last.result = [kind |-> "throw", error |-> "AppwriteException"]
  /\ last.console = <<"Failed to update file users">>
  /\ indexOf(backend.files, last.args.fileId) # 0

\* whether the name has a dot
hasDot(fileName) == \E i \in 1..Len(fileName) : fileName[i] = "."

\* the extension of a file name: what follows its last dot, in small letters;
\* <<>> when the name has no dot or ends with it
extensionOf(fileName) ==
  IF ~hasDot(fileName) THEN <<>>
  ELSE LET k == CHOOSE i \in 1..Len(fileName) :
                  fileName[i] = "." /\ \A j \in (i + 1)..Len(fileName) : fileName[j] # "."
       IN toLowerCase(SubSeq(fileName, k + 1, Len(fileName)))

\* the type that the four lists give an extension
typeOfExtension(e) ==
  IF e \in documentExtensions THEN "document"
  ELSE IF e \in imageExtensions THEN "image"
  ELSE IF e \in videoExtensions THEN "video"
  ELSE IF e \in audioExtensions THEN "audio"
  ELSE "other"

\* C14 as claimed: for every file name, also one without a dot, with an empty
\* extension or with an extension in capitals, getFileType returns a type of
\* {document, image, video, audio, other}: the type of the list that holds the
\* extension, and "other" for any other or missing extension.
C14_FileTypeOfExtension ==
  probe.fn = "getFileType" =>
    /\ probe.result.type \in {"document", "image", "video", "audio", "other"}
    /\ probe.result.type = typeOfExtension(extensionOf(probe.args))

\* what the code does: a name without a dot is taken whole as its extension
C14_FileTypeOfLastPiece ==
  probe.fn = "getFileType" =>
    /\ probe.result.type \in {"document", "image", "video", "audio", "other"}
    /\ probe.result.type =
         typeOfExtension(IF hasDot(probe.args) THEN extensionOf(probe.args)
                         ELSE toLowerCase(probe.args))
    /\ \A e \in ListedExtensions :
         Cardinality({l \in {documentExtensions, imageExtensions, videoExtensions,
                             audioExtensions} : e \in l}) = 1

\* the failing case: a file named "pdf", without a dot, is a document
C14_NoDotClassified ==
  /\ probe.fn = "getFileType"
  /\ probe.args = <<"p", "d", "f">>
  /\ probe.result = [type |-> "document", extension |-> <<"p", "d", "f">>]

\* x <= y and x < y for two large numbers
numLessEq(x, y) == x.hi < y.hi \/ (x.hi = y.hi /\ x.lo <= y.lo)
numLess(x, y) == x.hi < y.hi \/ (x.hi = y.hi /\ x.lo < y.lo)

\* v times the size of a unit
unitTimes(unit, v) ==
  IF unit = "Bytes" THEN number(v)
  ELSE IF unit = "KB" THEN times(number(v), 1024)
  ELSE IF unit = "MB" THEN [hi |-> v, lo |-> 0]
  ELSE [hi |-> v * 1024, lo |-> 0]

\* the unit of a byte count by the limits 1024, 1024^2 and 1024^3
unitOf(n) ==
  IF numLess(n, number(1024)) THEN "Bytes"
  ELSE IF numLess(n, [hi |-> 1, lo |-> 0]) THEN "KB"
  ELSE IF numLess(n, [hi |-> 1024, lo |-> 0]) THEN "MB"
  ELSE "GB"

\* C15 as claimed: convertFileSize(n) uses Bytes iff n < 1024, KB iff
\* 1024 <= n < 1024^2, MB iff 1024^2 <= n < 1024^3 and GB iff n >= 1024^3, and
\* the number it shows is n divided by the size of the unit: shown * unit = n.
C15_Original ==
  (probe.fn = "convertFileSize" /\ probe.args.digits = 0) =>
    /\ probe.result.unit = unitOf(probe.args.sizeInBytes)
    /\ unitTimes(probe.result.unit, probe.result.shown)
         = times(probe.args.sizeInBytes, IF probe.result.digits = 0 THEN 1 ELSE 10)

\* C15, amended: the units are as claimed; the number shown is n itself for
\* Bytes and, for KB, MB and GB, n divided by the size of the unit rounded to
\* one decimal, a tie going up: with s tenths shown,
\* (2s - 1) * unit <= 20 n < (2s + 1) * unit.
C15_UnitThresholds ==
  (probe.fn = "convertFileSize" /\ probe.args.digits = 0) =>
    LET n == probe.args.sizeInBytes
        r == probe.result
    IN /\ r.unit = unitOf(n)
       /\ r.unit = "Bytes" => (r.digits = 0 /\ number(r.shown) = n)
       /\ r.unit # "Bytes" =>
            /\ r.digits = 1
            /\ r.shown > 0
            /\ numLessEq(unitTimes(r.unit, 2 * r.shown - 1), times(n, 20))
            /\ numLess(times(n, 20), unitTimes(r.unit, 2 * r.shown + 1))

\* one byte under 1024^2 is shown as "1024.0 KB"
C15_Witness ==
  /\ probe.fn = "convertFileSize"
  /\ probe.args = [sizeInBytes |-> [hi |-> 0, lo |-> 1048575], digits |-> 0]
  /\ probe.result = [shown |-> 10240, digits |-> 1, unit |-> "KB"]

\* the rank of a unit
unitRank(unit) ==
  IF unit = "Bytes" THEN 0 ELSE IF unit = "KB" THEN 1 ELSE IF unit = "MB" THEN 2 ELSE 3

\* C16: for byte counts a <= b, convertFileSize(a) does not use a larger unit
\* than convertFileSize(b), and with the same unit does not show a larger
\* number (one decimal, rounded).  Stated over any two calls in a row.
C16_SizeMonotone ==
  [][(/\ probe.fn = "convertFileSize" /\ probe'.fn = "convertFileSize"
      /\ probe.args.digits = 0 /\ probe'.args.digits = 0
      /\ numLessEq(probe.args.sizeInBytes, probe'.args.sizeInBytes)) =>
       /\ unitRank(probe.result.unit) <= unitRank(probe'.result.unit)
       /\ probe.result.unit = probe'.result.unit =>
            /\ probe.result.digits = probe'.result.digits
            /\ probe.result.shown <= probe'.result.shown]_vars

\* 1024^2 bytes: the unit has risen to MB and the number fallen to 1.0
C16_Witness ==
  /\ probe.fn = "convertFileSize"
  /\ probe.args = [sizeInBytes |-> [hi |-> 1, lo |-> 0], digits |-> 0]
  /\ probe.result = [shown |-> 10, digits |-> 1, unit |-> "MB"]

\* the result r (in hundredths) is n as a percentage of 2^31 bytes rounded to
\* two decimals: (2r - 1) * 2^31 <= 2 * 10^4 * n < (2r + 1) * 2^31
percentageRounded(n, r) ==
  /\ r = 0 \/ numLessEq([hi |-> 2048 * (2 * r - 1), lo |-> 0], times(times(n, 200), 100))
  /\ numLess(times(times(n, 200), 100), [hi |-> 2048 * (2 * r + 1), lo |-> 0])

\* C17 as claimed: calculatePercentage(n) is n as a percentage of the quota of
\* 2 * 1024^3 bytes, rounded to two decimals, and it is at most 100, also for
\* n above the quota.
C17_PercentageCapped ==
  probe.fn = "calculatePercentage" =>
    /\ percentageRounded(probe.args.sizeInBytes, probe.result)
    /\ probe.result <= 10000

\* what the code does: the rounded percentage, above 100 when n is above the
\* quota
C17_PercentageRounded ==
  probe.fn = "calculatePercentage" =>
    /\ percentageRounded(probe.args.sizeInBytes, probe.result)
    /\ probe.result > 10000 <=>
         numLess([hi |-> 2048, lo |-> 107374], probe.args.sizeInBytes)

\* the failing case: 3 * 1024^3 bytes gives 150
C17_AboveQuota ==
  /\ probe.fn = "calculatePercentage"
  /\ probe.args.sizeInBytes = [hi |-> 3072, lo |-> 0]
  /\ probe.result = 15000

\* the ordering clauses among the queries
orderings(queries) ==
  LET isOrdering(q) == q.method \in {"orderAsc", "orderDesc"}
  IN SelectSeq(queries, isOrdering)

\* the ordering clause each key of sortTypes stands for
orderingOf(sort) ==
  CASE sort = <<"$createdAt", "-", "desc">> ->
         [method |-> "orderDesc", attribute |-> <<"$createdAt">>]
    [] sort = <<"$createdAt", "-", "asc">> ->
         [method |-> "orderAsc", attribute |-> <<"$createdAt">>]
    [] sort = <<"name", "-", "asc">> -> [method |-> "orderAsc", attribute |-> <<"name">>]
    [] sort = <<"name", "-", "desc">> -> [method |-> "orderDesc", attribute |-> <<"name">>]
    [] sort = <<"size", "-", "desc">> -> [method |-> "orderDesc", attribute |-> <<"size">>]
    [] sort = <<"size", "-", "asc">> -> [method |-> "orderAsc", attribute |-> <<"size">>]

\* C18: for each of the six keys of sortTypes, the queries of createQueries
\* (and of getFiles given that key) hold exactly one ordering clause, on the
\* field before the '-', ascending iff 'asc' follows the '-' and descending
\* otherwise; an empty sort adds no ordering clause; getFiles called without a
\* sort orders by $createdAt descending.
C18_SortKeyParsing ==
  probe.fn \in {"createQueries", "getFiles"} =>
    /\ probe.args.sort \in sortTypes =>
         orderings(probe.result) = <<orderingOf(probe.args.sort)>>
    /\ probe.args.sort = <<>> => orderings(probe.result) = <<>>
    /\ probe.fn = "getFiles" /\ probe.args.sort = undefinedSort =>
         orderings(probe.result)
           = <<[method |-> "orderDesc", attribute |-> <<"$createdAt">>]>>

\* name-asc has given an ascending ordering by name next to a type filter
C18_Witness ==
  /\ probe.fn = "createQueries"
  /\ probe.args.sort = <<"name", "-", "asc">>
  /\ probe.args.types # <<>>
  /\ Len(probe.result) >= 3
  /\ probe.result[Len(probe.result)] = [method |-> "orderAsc", attribute |-> <<"name">>]

\* the ids of the toasts of a list
idsOf(toasts) == {toasts[i].id : i \in 1..Len(toasts)}

\* the toast with this id is in the list and closed by the latest dispatch,
\* a DISMISS_TOAST of its id or of every toast
dismissed(toastId) ==
  /\ lastAction.type = "DISMISS_TOAST"
  /\ lastAction.toastId \in {toastId, Undefined}
  /\ \E i \in 1..Len(memoryState.toasts) :
       memoryState.toasts[i].id = toastId /\ ~memoryState.toasts[i].open

\* a dispatch of DISMISS_TOAST leaves every toast in the list and closes the
\* targeted one, or every one when no id is given
dismissKeeps ==
  lastAction'.type = "DISMISS_TOAST" =>
    /\ Len(memoryState'.toasts) = Len(memoryState.toasts)
    /\ \A i \in 1..Len(memoryState.toasts) :
         LET t == memoryState.toasts[i]
         IN memoryState'.toasts[i] =
              IF lastAction'.toastId \in {t.id, Undefined}
              THEN [f \in DOMAIN t |-> IF f = "open" THEN FALSE ELSE t[f]]
              ELSE t

\* a timer that fires removes the toast of its id and no other
firedRemoves ==
  \A toastId \in TimerIds :
    timers'[toastId] < timers[toastId] =>
      /\ toastId \notin idsOf(memoryState'.toasts)
      /\ idsOf(memoryState'.toasts) = idsOf(memoryState.toasts) \ {toastId}

\* C19: DISMISS_TOAST sets open to false on the targeted toast (on every toast
\* when no id is given) and removes no toast from the list; however often an
\* id is dismissed, at most one removal timer is pending for it; a timer that
\* fires removes the toast of its id; and every dismissed toast is eventually
\* removed from the list.
C19_ToastDismissal ==
  /\ [][dismissKeeps /\ firedRemoves]_vars
  /\ [](\A toastId \in TimerIds : timers[toastId] <= 1)
  /\ \A toastId \in TimerIds :
       dismissed(toastId) ~> (toastId \notin idsOf(memoryState.toasts))

\* a toast has been dismissed: it is still listed, closed, with one timer
\* pending for its id
C19_Witness ==
  \E toastId \in TimerIds :
    /\ dismissed(toastId)
    /\ timers[toastId] = 1
    /\ toastId \in toastTimeouts

\* the awaited server action has thrown and onSubmit goes on after it
submitThrew ==
  /\ authForm.awaited # noAwait
  /\ authForm.awaited.kind = "throw"
  /\ authForm'.awaited = noAwait
  /\ authForm'.type = authForm.type

\* a sign-in has answered that no user has the email, and onSubmit goes on
submitUnknownEmail ==
  /\ authForm.type = "sign-in"
  /\ authForm.awaited # noAwait
  /\ authForm.awaited.kind = "return"
  /\ last.info.existingUser = nullDoc
  /\ authForm'.awaited = noAwait
  /\ authForm'.type = authForm.type

\* what onSubmit leaves after a throw, and after the answer to a sign-in for
\* an email no user has
submitHandled ==
  /\ submitThrew =>
       (/\ authForm'.errorMessage = "Failed to create account. Please try again."
        /\ authForm'.isLoading = FALSE
        /\ authForm'.accountId = authForm.accountId)
  /\ submitUnknownEmail =>
       (/\ authForm'.accountId = Null
        /\ ~otpModalShown(authForm'))

idsFound(searchText) ==
  {backend.files[i]["$id"] : i \in {j \in 1..Len(backend.files) :
      /\ backend.files[j].owner = "2"
      /\ IsInfix(searchText, backend.files[j].name)}}

\* the component shows the results of debouncedQuery, or an empty closed
\* dropdown when it is empty
showsLatest ==
  IF search.debouncedQuery = <<>>
  THEN search.results = <<>> /\ ~search.open
  ELSE /\ search.open
       /\ {search.results[i]["$id"] : i \in 1..Len(search.results)}
            = idsFound(search.debouncedQuery)

\* no getFiles call is in flight, the one of the latest change of
\* debouncedQuery has returned, and no result was clicked since
allAnswered ==
  /\ search.pending = {}
  /\ ~search.latestThrew
  /\ ~search.clicked

\* C21: whatever the changes of the debounced query and whatever the order in
\* which the getFiles responses arrive, once no request is in flight the
\* Search component shows the results of the most recent debounced query, or
\* an empty closed dropdown if that query is empty.
C21_SearchFreshness == allAnswered => showsLatest

\* what the code gives: the component shows the latest query's results when
\* the response set last is the one of the latest change
C21_ShowsLastArrival ==
  allAnswered /\ search.shownFor = search.changes => showsLatest

\* the query went from "a" to "b", the response for "b" arrived before the
\* one for "a": nothing is in flight and the dropdown lists the files for "a"
C21_StaleResults ==
  /\ allAnswered
  /\ search.debouncedQuery = <<"b">>
  /\ search.changes = 2
  /\ search.shownFor = 1
  /\ search.open
  /\ {search.results[i].name : i \in 1..Len(search.results)} = {NameA}

\* the input was emptied while the request for "a" was in flight: its
\* response opened the dropdown again
C21_ReopenedAfterClear ==
  /\ allAnswered
  /\ search.debouncedQuery = <<>>
  /\ search.open
  /\ search.results # <<>>

====
